---- MODULE Spec2Model ----
(***************************************************************************)
(* Dashboard BHNT: slug-stable routing over the live menu Directory.       *)
(*                                                                         *)
(* Strings of the program (slugs, ids, URL paths) are sequences of         *)
(* one-character strings, so that concatenation, slice(1), startsWith,     *)
(* trailing-slash stripping, lower-casing and the slug pattern are the     *)
(* operations the program performs on them.                                *)
(***************************************************************************)
EXTENDS Integers, Sequences, FiniteSets, TLC

\* ------------------------------------------------------------------ bounds
MaxMenus == 2
NumAdmins == 2
MaxLog == 1
MaxDay == 4
MaxNotifications == 2

\* ----------------------------------------------------------- string atoms
Slash == <<"/">>
Null == <<"null">>
EmptyStr == <<>>

S_tongquan == <<"t","o","n","g","q","u","a","n">>
S_ghichu == <<"g","h","i","c","h","u">>
S_login == <<"l","o","g","i","n">>
S_caidat == <<"c","a","i","-","d","a","t">>
S_quanlynguoidung == <<"q","u","a","n","-","l","y","-","n","g","u","o","i","-","d","u","n","g">>
S_quanlykehoach == <<"q","u","a","n","-","l","y","-","k","e","-","h","o","a","c","h">>
S_giaidoan == <<"g","i","a","i","d","o","a","n">>
S_a == <<"a">>
S_b == <<"b">>
S_upperA == <<"A">>

DynamicMenuPrefix == <<"d","y","n","a","m","i","c","-","m","e","n","u","/">>
DynamicTaskPrefix == <<"d","y","n","a","m","i","c","-">>

Digit(i) == <<"0","1","2","3","4","5","6","7","8","9">>[i + 1]

\* Firestore document ids: opaque, assigned at creation, never reused.
MenuIdOf(i) == <<"m", Digit(i)>>
MenuIds == { MenuIdOf(i) : i \in 1..MaxMenus }

\* Each menu owns one task document (tasks subcollection of the menu).
TaskIdOf(menuId) == <<"t">> \o Tail(menuId)
MenuNameOf(id) == <<"G">> \o Tail(id)

\* ------------------------------------------------------- string functions
LowerCaseChars == { "a","b","c","d","e","f","g","h","i","j","k","l","m",
                    "n","o","p","q","r","s","t","u","v","w","x","y","z" }
DigitChars == { "0","1","2","3","4","5","6","7","8","9" }

toLowerChar(ch) ==
  CASE ch = "A" -> "a"
    [] ch = "B" -> "b"
    [] ch = "G" -> "g"
    [] ch = "D" -> "d"
    [] ch = "E" -> "e"
    [] ch = "H" -> "h"
    [] ch = "N" -> "n"
    [] ch = "O" -> "o"
    [] ch = "T" -> "t"
    [] ch = "A_grave" -> "a_grave"
    [] OTHER -> ch

RECURSIVE toLowerCase(_)
toLowerCase(s) ==
  IF s = <<>> THEN <<>> ELSE <<toLowerChar(Head(s))>> \o toLowerCase(Tail(s))

startsWith(s, p) == Len(s) >= Len(p) /\ SubSeq(s, 1, Len(p)) = p

substring(s, n) == SubSeq(s, n + 1, Len(s))

RECURSIVE stripTrailingSlash(_)
stripTrailingSlash(p) ==
  IF Len(p) > 0 /\ p[Len(p)] = "/"
    THEN stripTrailingSlash(SubSeq(p, 1, Len(p) - 1))
    ELSE p

\* Strip trailing slashes, lower-case; the bare root stays "/".
normalizeRoutePath(pathname) ==
  LET stripped == stripTrailingSlash(toLowerCase(pathname))
  IN IF stripped = EmptyStr THEN Slash ELSE stripped

\* ------------------------------------------------------------ route table
StaticRouteNames ==
  { EmptyStr, S_login, S_tongquan, S_ghichu, S_quanlynguoidung,
    S_quanlykehoach, S_caidat }

NoRoute == [ layout |-> "none", section |-> "none", menuId |-> Null, menuName |-> Null ]

routeConfig ==
  [ p \in { Slash \o n : n \in StaticRouteNames } |->
      [ layout |-> CASE p = Slash -> "cover"
                     [] p = Slash \o S_login -> "login"
                     [] OTHER -> "app",
        section |-> "static", menuId |-> Null, menuName |-> Null ] ]

defaultRoute == routeConfig[Slash]

\* --------------------------------------------------------------- Directory
NoMenu == [ id |-> Null, slug |-> EmptyStr, type |-> "none", name |-> Null ]

\* Array.prototype.find: the first element satisfying the test, else undefined.
find(arr, Test(_)) ==
  LET hits == { i \in 1..Len(arr) : Test(arr[i]) }
  IN IF hits = {} THEN NoMenu
     ELSE arr[CHOOSE i \in hits : \A j \in hits : i <= j]

\* createRouter().resolve
resolveViaAnyType(pathname, dynamicMenus) ==
  LET normalized == normalizeRoutePath(pathname)
      pathWithoutSlash == substring(normalized, 1)
      isTarget(m) == m.slug = pathWithoutSlash
                       \/ DynamicMenuPrefix \o m.id = pathWithoutSlash
      dynamicMenu == find(dynamicMenus, isTarget)
  IN IF normalized \in DOMAIN routeConfig
       THEN [ path |-> normalized, route |-> routeConfig[normalized], notFound |-> FALSE ]
     ELSE IF dynamicMenu # NoMenu
       THEN [ path |-> normalized,
              route |-> [ layout |-> "app", section |-> "dynamic-menu",
                          menuId |-> dynamicMenu.id, menuName |-> dynamicMenu.name ],
              notFound |-> FALSE ]
     ELSE [ path |-> Slash, route |-> defaultRoute, notFound |-> TRUE ]

resolveDynamicFirst(pathname, dynamicMenus) ==
  LET normalized == normalizeRoutePath(pathname)
      pathWithoutSlash == substring(normalized, 1)
      isTarget(m) == m.type = "task-list"
                       /\ (m.slug = pathWithoutSlash
                             \/ DynamicMenuPrefix \o m.id = pathWithoutSlash)
      dynamicMenu == find(dynamicMenus, isTarget)
  IN IF dynamicMenu # NoMenu
       THEN [ path |-> normalized,
              route |-> [ layout |-> "app", section |-> "dynamic-menu",
                          menuId |-> dynamicMenu.id, menuName |-> dynamicMenu.name ],
              notFound |-> FALSE ]
     ELSE IF normalized \in DOMAIN routeConfig
       THEN [ path |-> normalized, route |-> routeConfig[normalized], notFound |-> FALSE ]
     ELSE [ path |-> Slash, route |-> defaultRoute, notFound |-> TRUE ]

resolve(pathname, dynamicMenus) ==
  LET normalized == normalizeRoutePath(pathname)
      pathWithoutSlash == substring(normalized, 1)
      isTarget(m) == m.type = "task-list"
                       /\ (m.slug = pathWithoutSlash
                             \/ DynamicMenuPrefix \o m.id = pathWithoutSlash)
      dynamicMenu == find(dynamicMenus, isTarget)
  IN IF normalized \in DOMAIN routeConfig
       THEN [ path |-> normalized, route |-> routeConfig[normalized], notFound |-> FALSE ]
     ELSE IF dynamicMenu # NoMenu
       THEN [ path |-> normalized,
              route |-> [ layout |-> "app", section |-> "dynamic-menu",
                          menuId |-> dynamicMenu.id, menuName |-> dynamicMenu.name ],
              notFound |-> FALSE ]
     ELSE [ path |-> Slash, route |-> defaultRoute, notFound |-> TRUE ]

\* getMenuPath: the single source of truth for a menu's URL.
getMenuPathFixedForm(menuId, dynamicMenus) ==
  LET hasId(m) == m.id = menuId
      menu == find(dynamicMenus, hasId)
  IN IF menu = NoMenu THEN Slash \o S_tongquan
     ELSE Slash \o DynamicMenuPrefix \o menuId

getMenuPath(menuId, dynamicMenus) ==
  LET hasId(m) == m.id = menuId
      menu == find(dynamicMenus, hasId)
      slug == IF menu.slug # EmptyStr THEN menu.slug ELSE DynamicMenuPrefix \o menuId
  IN IF menu = NoMenu THEN Slash \o S_tongquan
     ELSE Slash \o slug

\* renderSidebarDynamic: the generated hrefs, overview first.
RECURSIVE sidebarLinks(_)
sidebarLinks(dynamicMenus) ==
  IF dynamicMenus = <<>> THEN <<>>
  ELSE LET menu == Head(dynamicMenus)
           menuPath == IF menu.slug # EmptyStr THEN Slash \o menu.slug
                       ELSE Slash \o DynamicMenuPrefix \o menu.id
       IN (IF menu.type = "task-list" THEN <<menuPath>> ELSE <<>>)
            \o sidebarLinks(Tail(dynamicMenus))

renderSidebarDynamic(dynamicMenus) == <<Slash \o S_tongquan>> \o sidebarLinks(dynamicMenus)

\* ------------------------------------------------------------ slug rules
\* Slugs blocked by the menu editor: tongquan, ghichu, quan-ly-ke-hoach,
\* cai-dat, login, giaidoan1-4.
reservedSlugs ==
  { S_tongquan, S_ghichu, S_quanlykehoach, S_caidat, S_login }
    \cup { S_giaidoan \o <<Digit(i)>> : i \in 1..4 }

\* The pattern [a-z0-9\-]+ of the #menu-slug input.
matchesSlugPattern(slug) ==
  /\ Len(slug) >= 1
  /\ \A i \in 1..Len(slug) : slug[i] \in LowerCaseChars \cup DigitChars \cup {"-"}

\* Slug validation of the menu form: format, duplicates, reserved names.
\* A menu being edited is not a duplicate of itself.
validateSlug(form, dynamicMenus) ==
  IF ~matchesSlugPattern(form.slug) THEN "format"
  ELSE IF \E i \in 1..Len(dynamicMenus) :
            dynamicMenus[i].slug = form.slug /\ dynamicMenus[i].id # form.id
    THEN "duplicate"
  ELSE IF form.slug \in reservedSlugs THEN "reserved"
  ELSE "ok"

\* ================================================================ TaskItem.js
\* Letters outside ASCII are written as tokens (a_grave, A_grave, a_tilde,
\* d_stroke); sqrt, dagger, fhook, e_diaeresis and pound are the characters
\* U+221A, U+2020, U+0192, U+00EB and U+00A3.
S_completed == << "c", "o", "m", "p", "l", "e", "t", "e", "d" >>
S_hoanthanh == << "h", "o", "a_grave", "n", " ", "t", "h", "a_grave", "n", "h" >>
S_dahoanthanh == << "d_stroke", "a_tilde", " " >> \o S_hoanthanh
S_done == << "d", "o", "n", "e" >>
S_xong == << "x", "o", "n", "g" >>
S_hoanthanhAt511 ==
  << "h", "o", "sqrt", "dagger", "n", " ", "t", "h", "sqrt", "dagger", "n", "h" >>
S_dahoanthanhAt512 == << "fhook", "e_diaeresis", "sqrt", "pound", " " >> \o S_hoanthanhAt511

\* A value is truthy unless it is undefined, null or ''.
truthy(v) == v # Null /\ v # EmptyStr

\* String.prototype.trim
RECURSIVE trimStart(_)
trimStart(s) == IF s # <<>> /\ Head(s) = " " THEN trimStart(Tail(s)) ELSE s

RECURSIVE trimEnd(_)
trimEnd(s) ==
  IF s # <<>> /\ s[Len(s)] = " " THEN trimEnd(SubSeq(s, 1, Len(s) - 1)) ELSE s

trim(s) == trimEnd(trimStart(s))

normalizeStatus(status) == IF truthy(status) THEN trim(toLowerCase(status)) ELSE EmptyStr

\* TaskItem.js declares every function twice.  The declarations of lines
\* 1-471 keep their names here; those of lines 474-863 carry the suffix At
\* and the line of the declaration.
completedVariations == { S_completed, S_hoanthanh, S_dahoanthanh, S_done, S_xong }
completedVariationsAt509 ==
  { S_completed, S_hoanthanhAt511, S_dahoanthanhAt512, S_done, S_xong }

isTaskCompleted(task, taskState) ==
  IF taskState.completed = TRUE THEN TRUE
  ELSE IF task.isCompleted = TRUE THEN TRUE
  ELSE IF task.completed = TRUE THEN TRUE
  ELSE IF truthy(task.status) /\ normalizeStatus(task.status) \in completedVariations
    THEN TRUE
  ELSE IF truthy(taskState.status)
            /\ normalizeStatus(taskState.status) \in completedVariations
    THEN TRUE
  ELSE IF truthy(task.completionLink) \/ truthy(taskState.link) THEN TRUE
  ELSE FALSE

isTaskCompletedAt500(task, taskState) ==
  IF taskState.completed = TRUE THEN TRUE
  ELSE IF truthy(task.status) /\ normalizeStatus(task.status) \in completedVariationsAt509
    THEN TRUE
  ELSE IF truthy(taskState.status)
            /\ normalizeStatus(taskState.status) \in completedVariationsAt509
    THEN TRUE
  ELSE FALSE

getCompletionStatus(task, taskState) ==
  LET completed == isTaskCompleted(task, taskState)
  IN [ isCompleted |-> completed, badgeShouldBeGreen |-> completed,
       footerShouldBeVisible |-> completed, inputShouldBeHidden |-> completed ]

\* The card as the DOM holds it: the status badge, the input group and its
\* two controls, the completed-actions footer with its View button, and the
\* comment section.
NoCard == [ exists |-> FALSE ]

cardHtml(completed, completionLink) ==
  [ exists |-> TRUE,
    badge |-> IF completed THEN "completed" ELSE "pending",
    inputGroupHidden |-> completed,
    inputValue |-> completionLink,
    inputDisabled |-> completed,
    completeDisabled |-> completed,
    footerHidden |-> ~completed,
    viewDisabled |-> ~truthy(completionLink),
    commentHidden |-> ~completed ]

createTaskItem(task, taskState) ==
  LET completionStatus == getCompletionStatus(task, taskState)
      completed == completionStatus.isCompleted
      completionLink == IF truthy(taskState.link) THEN taskState.link ELSE EmptyStr
  IN cardHtml(completed, completionLink)

createTaskItemAt554(task, taskState) ==
  LET completed == isTaskCompletedAt500(task, taskState)
      completionLink == IF truthy(taskState.link) THEN taskState.link ELSE EmptyStr
  IN cardHtml(completed, completionLink)

\* The 'input' listener of the link field.
onLinkInput(card, typed) ==
  LET value == trim(typed)
  IN [card EXCEPT !.inputValue = typed, !.completeDisabled = ~truthy(value)]

updateTaskCardUIFooterByLink(card, task, taskState) ==
  IF ~card.exists THEN card
  ELSE LET completed == getCompletionStatus(task, taskState).isCompleted
           value == IF truthy(taskState.link) THEN taskState.link ELSE EmptyStr
       IN [card EXCEPT !.badge = IF completed THEN "completed" ELSE "pending",
                       !.inputGroupHidden = completed,
                       !.footerHidden = ~truthy(taskState.link),
                       !.inputDisabled = completed,
                       !.inputValue = value,
                       !.completeDisabled = completed \/ ~truthy(trim(value)),
                       !.viewDisabled = ~truthy(taskState.link),
                       !.commentHidden = ~completed]

updateTaskCardUI(card, task, taskState) ==
  IF ~card.exists THEN card
  ELSE LET completed == getCompletionStatus(task, taskState).isCompleted
           value == IF truthy(taskState.link) THEN taskState.link ELSE EmptyStr
       IN [card EXCEPT !.badge = IF completed THEN "completed" ELSE "pending",
                       !.inputGroupHidden = completed,
                       !.footerHidden = ~completed,
                       !.inputDisabled = completed,
                       !.inputValue = value,
                       !.completeDisabled = completed \/ ~truthy(trim(value)),
                       !.viewDisabled = ~truthy(taskState.link),
                       !.commentHidden = ~completed]

updateTaskCardUIAt786(card, task, taskState) ==
  IF ~card.exists THEN card
  ELSE LET completed == isTaskCompletedAt500(task, taskState)
           value == IF truthy(taskState.link) THEN taskState.link ELSE EmptyStr
       IN [card EXCEPT !.badge = IF completed THEN "completed" ELSE "pending",
                       !.inputGroupHidden = completed,
                       !.footerHidden = ~completed,
                       !.inputDisabled = completed,
                       !.inputValue = value,
                       !.completeDisabled = completed \/ ~truthy(trim(value)),
                       !.viewDisabled = ~truthy(taskState.link),
                       !.commentHidden = ~completed]

\* ================================================================ TaskList.js
\* taskState[taskId]: present is FALSE while the entry does not exist; the
\* remaining fields then read as those of {}.
NoTaskState ==
  [ present |-> FALSE, completed |-> FALSE, link |-> EmptyStr, status |-> Null,
    completedAt |-> FALSE, comments |-> FALSE ]

UpperCaseChars == { "A", "B", "D", "E", "G", "H", "N", "O", "T" }

\* new URL(s) succeeds on an absolute URL: a scheme of letters, then ":".
parsesAsURL(s) ==
  \E k \in 2..Len(s) :
    /\ s[k] = ":"
    /\ \A j \in 1..(k - 1) : s[j] \in LowerCaseChars \cup UpperCaseChars

\* Each handler returns the entry it leaves in taskState and the number of
\* times it called onSuccess and onError.
handleTaskCompleteNoUrlCheck(card, entry) ==
  IF ~card.exists \/ ~truthy(trim(card.inputValue))
    THEN [ entry |-> entry, onSuccess |-> 0, onError |-> 1 ]
  ELSE LET completionLink == trim(card.inputValue)
       IN [ entry |-> [entry EXCEPT !.present = TRUE, !.completed = TRUE,
                                      !.link = completionLink, !.completedAt = TRUE],
            onSuccess |-> 1, onError |-> 0 ]

handleTaskComplete(card, entry) ==
  IF ~card.exists \/ ~truthy(trim(card.inputValue))
    THEN [ entry |-> entry, onSuccess |-> 0, onError |-> 1 ]
  ELSE LET completionLink == trim(card.inputValue)
       IN IF ~parsesAsURL(completionLink)
            THEN [ entry |-> entry, onSuccess |-> 0, onError |-> 1 ]
            ELSE [ entry |-> [entry EXCEPT !.present = TRUE, !.completed = TRUE,
                                           !.link = completionLink, !.completedAt = TRUE],
                   onSuccess |-> 1, onError |-> 0 ]

handleTaskEdit(entry) ==
  [ entry |-> [entry EXCEPT !.present = TRUE, !.completed = FALSE, !.completedAt = FALSE],
    onSuccess |-> 1, onError |-> 0 ]

\* state.comments.push({...})
saveTaskComment(entry) == [entry EXCEPT !.present = TRUE, !.comments = TRUE]

\* ============================================== notification backend helpers
\* Times are whole days.  A task row has name (Null when unset) and
\* assigneeId (Null when unset); an assignee row has id and name.
RetentionDays == 3

N_task1 == << "k", "1" >>
N_task9 == << "k", "9" >>
N_user1 == << "u", "1" >>
S_Fix == << "F", "i", "x" >>
S_Jane == << "J", "a", "n", "e" >>
S_John == << "J", "o", "h", "n" >>
S_UntitledTask == << "Untitled Task" >>
S_great == << "G", "r", "e", "a", "t" >>

NoRow == [ exists |-> FALSE ]
TaskRow(name, assigneeId) == [ exists |-> TRUE, name |-> name, assigneeId |-> assigneeId ]
AssigneeRow(id, name) == [ exists |-> TRUE, id |-> id, name |-> name ]

\* task.name || 'Untitled Task'
titleOf(task) == IF truthy(task.name) THEN task.name ELSE S_UntitledTask

\* `User ${userWhoCommented} commented on "${title}"`
commentMessage(userWhoCommented, title) ==
  << "User " >> \o userWhoCommented \o << " commented on ", "\"" >> \o title \o << "\"" >>

\* commentContent.substring(0, 100)
commentPreviewOf(commentContent) ==
  SubSeq(commentContent, 1, IF Len(commentContent) < 100 THEN Len(commentContent) ELSE 100)

\* getTaskById_Firestore: the task found in the menus of the project document.
getTaskById_Firestore(taskId, cat) ==
  IF taskId \in DOMAIN cat.tasks /\ cat.tasks[taskId].exists
    THEN cat.tasks[taskId] ELSE NoRow

\* getTaskAssignee_Firestore: the assignee document of the task, or null.
getTaskAssignee_Firestore(taskId, cat) ==
  LET task == getTaskById_Firestore(taskId, cat)
  IN IF ~task.exists \/ ~truthy(task.assigneeId) THEN NoRow
     ELSE IF task.assigneeId \in DOMAIN cat.assignees /\ cat.assignees[task.assigneeId].exists
       THEN cat.assignees[task.assigneeId]
     ELSE NoRow

\* getTaskAssignee_SQL: users INNER JOIN tasks ON t.assignee_id = u.id.
getTaskAssignee_SQL(taskId, cat) ==
  LET joined == { u \in DOMAIN cat.assignees :
                    /\ cat.assignees[u].exists
                    /\ taskId \in DOMAIN cat.tasks
                    /\ cat.tasks[taskId].exists
                    /\ cat.tasks[taskId].assigneeId = cat.assignees[u].id }
  IN IF joined = {} THEN NoRow ELSE cat.assignees[CHOOSE u \in joined : TRUE]

Thrown == [ outcome |-> "throw", returned |-> Null, created |-> {} ]
ReturnedNull == [ outcome |-> "null", returned |-> Null, created |-> {} ]

\* The variant that does not validate the assignee record.
createCommentNotification_Unvalidated(taskId, commentContent, userWhoCommented, cat, id, at) ==
  LET task == getTaskById_Firestore(taskId, cat)
  IN IF ~task.exists THEN Thrown
     ELSE IF ~truthy(task.assigneeId) THEN ReturnedNull
     ELSE [ outcome |-> "created", returned |-> id,
            created |-> { [ id |-> id, type |-> "comment", taskId |-> taskId,
                            taskName |-> titleOf(task),
                            message |-> commentMessage(userWhoCommented, titleOf(task)),
                            commentPreview |-> commentPreviewOf(commentContent),
                            recipientId |-> task.assigneeId,
                            recipientName |-> Null,
                            sender |-> userWhoCommented,
                            is_read |-> FALSE, created_at |-> at ] } ]

\* createCommentNotification_Firestore: the outcome, the id returned and the
\* documents written; id is the one notificationRef.id generates.
createCommentNotification_Firestore(taskId, commentContent, userWhoCommented, cat, id, at) ==
  LET task == getTaskById_Firestore(taskId, cat)
      assignee == getTaskAssignee_Firestore(taskId, cat)
  IN IF ~task.exists THEN Thrown
     ELSE IF ~truthy(task.assigneeId) THEN ReturnedNull
     ELSE IF ~assignee.exists THEN ReturnedNull
     ELSE [ outcome |-> "created", returned |-> id,
            created |-> { [ id |-> id, type |-> "comment", taskId |-> taskId,
                            taskName |-> titleOf(task),
                            message |-> commentMessage(userWhoCommented, titleOf(task)),
                            commentPreview |-> commentPreviewOf(commentContent),
                            recipientId |-> task.assigneeId,
                            recipientName |-> assignee.name,
                            sender |-> userWhoCommented,
                            is_read |-> FALSE, created_at |-> at ] } ]

\* createCommentNotification_SQL: the assignee is looked up first, the task
\* second; id is the insertId.
createCommentNotification_SQL(taskId, commentContent, userWhoCommented, cat, id, at) ==
  LET assignee == getTaskAssignee_SQL(taskId, cat)
      taskRows == IF taskId \in DOMAIN cat.tasks /\ cat.tasks[taskId].exists
                    THEN << cat.tasks[taskId] >> ELSE <<>>
  IN IF ~assignee.exists THEN ReturnedNull
     ELSE IF Len(taskRows) = 0 THEN Thrown
     ELSE LET task == taskRows[1]
          IN [ outcome |-> "created", returned |-> id,
               created |-> { [ id |-> id, type |-> "comment", taskId |-> taskId,
                               taskName |-> task.name,
                               message |-> commentMessage(userWhoCommented, titleOf(task)),
                               commentPreview |-> commentPreviewOf(commentContent),
                               recipientId |-> assignee.id,
                               recipientName |-> assignee.name,
                               sender |-> userWhoCommented,
                               is_read |-> FALSE, created_at |-> at ] } ]

\* The cleanup that also takes unread notifications.
oldNotificationsAnyRead(rows, at) ==
  { n \in rows : n.created_at < at - RetentionDays }

\* WHERE is_read = TRUE AND created_at < (now - 3 days)
oldNotifications(rows, at) ==
  { n \in rows : n.is_read = TRUE /\ n.created_at < at - RetentionDays }

\* ============================================================ setup helpers
\* The static data migrateStaticData copies to the store: assignees, menus
\* and the tasks of each menu, all identified by name.
S_BOD == << "B", "O", "D" >>
S_Marketing == << "M", "a", "r", "k", "e", "t", "i", "n", "g" >>
S_GD1 == << "G", "D", " ", "1" >>
S_GD2 == << "G", "D", " ", "2" >>
S_Kickoff == << "K", "i", "c", "k", "o", "f", "f" >>
S_Plan == << "P", "l", "a", "n" >>

StaticAssignees == { S_BOD, S_Marketing }
StaticMenus == { S_GD1, S_GD2 }
StaticTasks == { << S_GD1, S_Kickoff >>, << S_GD1, S_Plan >>, << S_GD2, S_Kickoff >> }

\* Each phase loads what exists, checks by name, and creates only what is
\* missing.
migrateAssignees(existing) ==
  [ n \in DOMAIN existing |-> IF n \in StaticAssignees /\ existing[n] = 0 THEN 1
                              ELSE existing[n] ]

migrateMenus(existing) ==
  [ n \in DOMAIN existing |-> IF n \in StaticMenus /\ existing[n] = 0 THEN 1
                              ELSE existing[n] ]

\* The tasks phase without `existingTasks.some(t => t.name === task.title)`.
migrateTasksUnchecked(existing) ==
  [ t \in DOMAIN existing |-> IF t \in StaticTasks THEN existing[t] + 1 ELSE existing[t] ]

migrateTasks(existing) ==
  [ t \in DOMAIN existing |-> IF t \in StaticTasks /\ existing[t] = 0 THEN 1
                              ELSE existing[t] ]

Created(before, after) ==
  Cardinality({ k \in DOMAIN before : after[k] > before[k] })

\* migrateStaticData(): the three phases in order, and the counts reported.
migrateStaticData(st) ==
  LET assignees == migrateAssignees(st.assignees)
      menus == migrateMenus(st.menus)
      tasks == migrateTasks(st.tasks)
  IN [ store |-> [ assignees |-> assignees, menus |-> menus, tasks |-> tasks ],
       report |-> [ ran |-> TRUE,
                    assignees |-> Created(st.assignees, assignees),
                    menus |-> Created(st.menus, menus),
                    tasks |-> Created(st.tasks, tasks) ] ]

\* createOwnerAccount(): authStep and writeStep say whether Firebase Auth and
\* the Firestore write accept the call.
createOwnerAccount(registered, role, authStep, writeStep) ==
  IF registered
    THEN [ authUser |-> registered, userDoc |-> role, success |-> FALSE,
           error |-> "auth/email-already-in-use" ]
  ELSE IF authStep # "ok"
    THEN [ authUser |-> registered, userDoc |-> role, success |-> FALSE, error |-> authStep ]
  ELSE IF writeStep # "ok"
    THEN [ authUser |-> TRUE, userDoc |-> role, success |-> FALSE, error |-> writeStep ]
  ELSE [ authUser |-> TRUE, userDoc |-> "admin", success |-> TRUE, error |-> "none" ]

\* ======================================================= ActivityLog.js
\* The vanilla ActivityLog widget is the record of its fields: activities
\* (activity ids in display order), itemsPerPage, currentPage, container
\* (whether getElementById found the element) and html, the content render()
\* last put into the container.
Ellipsis == 0          \* the '...' entry of the page list; pages start at 1
DefaultItemsPerPage == 10

Activities(n) == [ i \in 1..n |-> i ]

Math_ceil(a, b) == (a + b - 1) \div b
Math_max(a, b) == IF a >= b THEN a ELSE b
Math_min(a, b) == IF a <= b THEN a ELSE b

\* Array.prototype.slice(startIndex, endIndex), zero-based, end exclusive.
slice(arr, startIndex, endIndex) ==
  SubSeq(arr, startIndex + 1, Math_min(endIndex, Len(arr)))

includes(arr, x) == \E i \in 1..Len(arr) : arr[i] = x

getTotalPages(w) == Math_ceil(Len(w.activities), w.itemsPerPage)

getCurrentPageData(w) ==
  LET startIndex == (w.currentPage - 1) * w.itemsPerPage
      endIndex == startIndex + w.itemsPerPage
  IN slice(w.activities, startIndex, endIndex)

\* for (let i = start; i <= end; i++) if (!pages.includes(i)) pages.push(i)
RECURSIVE pushRange(_, _, _)
pushRange(pages, i, end) ==
  IF i > end THEN pages
  ELSE pushRange(IF includes(pages, i) THEN pages ELSE Append(pages, i), i + 1, end)

getPageNumbersEarlyEllipsis(w) ==
  LET totalPages == getTotalPages(w)
      current == w.currentPage
      start == Math_max(2, current - 1)
      end == Math_min(totalPages - 1, current + 1)
      first == IF current > 2 THEN << 1, Ellipsis >> ELSE << 1 >>
      around == pushRange(first, start, end)
      gap == IF current < totalPages - 2 THEN Append(around, Ellipsis) ELSE around
  IN IF totalPages <= 7 THEN Activities(totalPages)
     ELSE IF includes(gap, totalPages) THEN gap ELSE Append(gap, totalPages)

getPageNumbers(w) ==
  LET totalPages == getTotalPages(w)
      current == w.currentPage
      start == Math_max(2, current - 1)
      end == Math_min(totalPages - 1, current + 1)
      first == IF current > 3 THEN << 1, Ellipsis >> ELSE << 1 >>
      around == pushRange(first, start, end)
      gap == IF current < totalPages - 2 THEN Append(around, Ellipsis) ELSE around
  IN IF totalPages <= 7 THEN Activities(totalPages)
     ELSE IF includes(gap, totalPages) THEN gap ELSE Append(gap, totalPages)

\* renderPagination: no controls for a single page.
renderPagination(w) ==
  IF getTotalPages(w) <= 1 THEN <<>> ELSE getPageNumbers(w)

NoHtml == [ empty |-> TRUE, showing |-> <<>>, rows |-> <<>>, pages |-> <<>>, current |-> 0,
            last |-> 0 ]

\* render(): header count, table rows and pagination of the current page.
render(w) ==
  LET startIndex == (w.currentPage - 1) * w.itemsPerPage + 1
      endIndex == Math_min(w.currentPage * w.itemsPerPage, Len(w.activities))
  IN IF ~w.container THEN w
     ELSE [w EXCEPT !.html =
             [ empty |-> FALSE,
               showing |-> IF Len(w.activities) > 0
                             THEN << startIndex, endIndex, Len(w.activities) >>
                           ELSE <<>>,
               rows |-> getCurrentPageData(w),
               pages |-> renderPagination(w),
               current |-> w.currentPage,
               last |-> getTotalPages(w) ]]

\* constructor + init(); itemsPerPage 0 stands for a config without one.
ActivityLog(config) ==
  render([ activities |-> config.activities,
           itemsPerPage |-> IF config.itemsPerPage # 0 THEN config.itemsPerPage
                            ELSE DefaultItemsPerPage,
           currentPage |-> 1,
           container |-> config.found,
           html |-> NoHtml ])

updateActivities(w, activities) ==
  render([w EXCEPT !.activities = activities, !.currentPage = 1])

goToPageUnvalidated(w, page) == render([w EXCEPT !.currentPage = page])

goToPage(w, page) ==
  IF page < 1 \/ page > getTotalPages(w) THEN w
  ELSE render([w EXCEPT !.currentPage = page])

previousPage(w) == IF w.currentPage > 1 THEN goToPage(w, w.currentPage - 1) ELSE w

nextPage(w) == IF w.currentPage < getTotalPages(w) THEN goToPage(w, w.currentPage + 1) ELSE w

destroy(w) ==
  [w EXCEPT !.html = IF w.container THEN NoHtml ELSE w.html,
            !.activities = <<>>,
            !.currentPage = 1]

\* ============================================ CORRECTED_TASK_COMPONENT.js
\* The comment part of updateUI.  ui holds taskState (per task: completed and
\* the number of comments), the sets openCommentSections and
\* autoOpenedCommentSections, and per task whether the completed footer and
\* the comment section carry the class hidden.
allTasks == << "gd1-1", "gd1-2" >>

TaskIds == { allTasks[i] : i \in 1..Len(allTasks) }

\* The forEach body of updateUI for one task.
updateTaskUI(ui, id) ==
  LET state == ui.taskState[id]
      commentCount == state.comments
      autoOpen == /\ commentCount > 0
                  /\ id \notin ui.openCommentSections
                  /\ id \notin ui.autoOpenedCommentSections
      opened == IF autoOpen THEN ui.openCommentSections \cup { id }
                ELSE ui.openCommentSections
      shouldShowComments == id \in opened
  IN IF state.completed
       THEN [ui EXCEPT !.openCommentSections = opened,
                       !.autoOpenedCommentSections =
                         IF autoOpen THEN @ \cup { id } ELSE @,
                       !.actionsHidden[id] = FALSE,
                       !.commentHidden[id] = ~shouldShowComments]
     ELSE [ui EXCEPT !.openCommentSections = @ \ { id },
                     !.actionsHidden[id] = TRUE,
                     !.commentHidden[id] = TRUE]

RECURSIVE forEachTask(_, _)
forEachTask(ui, tasks) ==
  IF tasks = <<>> THEN ui
  ELSE forEachTask(updateTaskUI(ui, Head(tasks)), Tail(tasks))

updateUI(ui) == forEachTask(ui, allTasks)

\* handleTaskComment: toggle the open state of the task's comment section.
handleTaskComment(ui, taskId) ==
  [ui EXCEPT !.openCommentSections =
               IF taskId \in @ THEN @ \ { taskId } ELSE @ \cup { taskId }]

\* =================================================================== state
VARIABLES
  store,         \* menus collection of the document store: id -> document
  nextId,        \* number of the next document id the store hands out
  dynamicMenus,  \* per browser: the Directory held in memory
  inflight,      \* per browser: the menu write awaiting the store
  router,        \* per browser: TRUE once createRouter() has run
  currentPath,   \* per browser: window.location.pathname
  currentRoute,  \* per browser: the route last rendered by the router
  sidebar,       \* per browser: hrefs of #main-navigation
  callLog,       \* per browser: dependents run by the last menus snapshot,
                 \*   each with the Directory it read
  dynamicTasks,  \* per browser: task lists cached by menu id
  taskDocs,      \* tasks subcollection: menu id -> task document
  pendingTask,   \* per browser: the task action awaiting updateDoc
  activityLogs,  \* per browser: activity entries, newest first
  navLog,        \* per browser: outcomes (menuId, navigated, target) of the last two navigateToTask calls
  tiCopy,        \* which declarations of TaskItem.js the page runs: 1 or 2
  task,          \* the task object the card is rendered from
  taskState,     \* taskState[task.id] in memory
  card,          \* the task card in the DOM
  cardOp,        \* the last event of the card: create, update, input or a handler
  handlerCalls,  \* onSuccess / onError calls of the last handler
  syncWrite,     \* the updateDoc of syncTaskState() awaiting the store
  projectDoc,    \* projects/{projectId}: taskState and activityLogs stored
  shown,         \* what the tasks container displays
  menuLoadingState, \* menuLoadingState[menuId]
  fetching,      \* menus whose loadMenuTasks fetch awaits the store
  completing,    \* completeDynamicTask between its awaits
  linkInput,     \* value of #dynamic-task-input-{taskId}
  toast,         \* the last message shown to the user
  unhandled,     \* TRUE once a promise rejection went unhandled
  now,           \* the clock of the backend, in days
  catalog,       \* the tasks and assignees both backends read
  notifications, \* projects/{projectId}/notifications (Firestore)
  notificationRows, \* table notifications (SQL)
  nextNotification, \* number of the next notification id
  lastCall,      \* the last backend call and what it returned
  assigneeDocs,  \* assignees collection: name -> number of documents
  menuDocs,      \* menus collection: name -> number of documents
  menuTaskDocs,  \* tasks subcollections: (menu name, task name) -> number
  migrationReport, \* what the last migrateStaticData run created
  authUser,      \* TRUE once the admin e-mail is registered in Firebase Auth
  userDoc,       \* role of users/{uid}, "none" while the document is missing
  ownerResult,   \* what the last createOwnerAccount call returned
  pager,         \* the vanilla ActivityLog widget
  lastPagerCall, \* the last method called on the widget and its argument
  commentUi,     \* taskState, comment section sets and DOM classes of the cards
  closedByUser,  \* tasks whose comment section, with comments in it, the user closed last
  autoOpens,     \* per task: how often updateUI opened its comment section
  lastUiOp       \* the last operation on the comment sections

cardVars == << tiCopy, task, taskState, card, cardOp, handlerCalls, syncWrite, projectDoc >>
sectionVars == << shown, menuLoadingState, fetching, completing, linkInput >>
uiVars == << toast, unhandled >>
notifyVars == << now, catalog, notifications, notificationRows, nextNotification,
                 lastCall >>
setupVars == << assigneeDocs, menuDocs, menuTaskDocs, migrationReport, authUser,
                userDoc, ownerResult >>
backendVars == << notifyVars, setupVars >>
pagerVars == << pager, lastPagerCall >>
commentVars == << commentUi, closedByUser, autoOpens, lastUiOp >>
widgetVars == << pagerVars, commentVars >>
otherVars == << backendVars, widgetVars >>
pageVars == << cardVars, sectionVars, uiVars, otherVars >>

vars == << store, nextId, dynamicMenus, inflight, router, currentPath,
           currentRoute, sidebar, callLog, dynamicTasks, taskDocs,
           pendingTask, activityLogs, navLog, pageVars >>

menuVars == << store, nextId, dynamicMenus, inflight, sidebar, callLog >>
routeVars == << router, currentPath, currentRoute >>
taskVars == << dynamicTasks, taskDocs, pendingTask, activityLogs, navLog >>

Clients == 1..NumAdmins
Viewer == 1
Editor == 2

NoDoc == [ exists |-> FALSE, slug |-> EmptyStr, type |-> "none" ]
NoWrite == [ op |-> "none", id |-> Null, slug |-> EmptyStr, type |-> "none" ]
NoTask == [ kind |-> "none", menuId |-> Null, taskId |-> Null ]
NewTaskDoc == [ completed |-> FALSE, completedLink |-> FALSE, completedComment |-> FALSE ]

\* Only the first menu created carries a task document.
TasksOf(menuId) == IF menuId = MenuIdOf(1) THEN { TaskIdOf(menuId) } ELSE {}

\* query(menusRef, orderBy('order')): the documents in creation order.
RECURSIVE SnapshotFrom(_, _)
SnapshotFrom(st, i) ==
  IF i > MaxMenus THEN <<>>
  ELSE (IF st[MenuIdOf(i)].exists
          THEN << [ id |-> MenuIdOf(i), data |-> st[MenuIdOf(i)] ] >>
          ELSE <<>>) \o SnapshotFrom(st, i + 1)

SnapshotOf(st) == SnapshotFrom(st, 1)

\* dynamicMenus.push({ id: doc.id, ...doc.data() })
pushDoc(menus, doc) ==
  Append(menus, [ id |-> doc.id, slug |-> doc.data.slug, type |-> doc.data.type,
                  name |-> MenuNameOf(doc.id) ])

\* The onSnapshot callback of loadDynamicMenus, as the list of dependents it
\* runs, each paired with the Directory that dependent reads.
RECURSIVE snapshotCallsPerEntry(_, _, _)
snapshotCallsPerEntry(docs, menus, hasRouter) ==
  IF docs = <<>> THEN <<>>
  ELSE LET pushed == pushDoc(menus, Head(docs))
       IN << [ fn |-> "renderDynamicMenus", seen |-> pushed ],
             [ fn |-> "renderSidebarDynamic", seen |-> pushed ],
             [ fn |-> "renderDynamicOverview", seen |-> pushed ] >>
            \o (IF hasRouter THEN << [ fn |-> "handleCurrent", seen |-> pushed ] >> ELSE <<>>)
            \o snapshotCallsPerEntry(Tail(docs), pushed, hasRouter)

RECURSIVE snapshotCalls(_, _, _)
snapshotCalls(docs, menus, hasRouter) ==
  IF docs # <<>> THEN snapshotCalls(Tail(docs), pushDoc(menus, Head(docs)), hasRouter)
  ELSE << [ fn |-> "renderDynamicMenus", seen |-> menus ],
          [ fn |-> "renderSidebarDynamic", seen |-> menus ],
          [ fn |-> "renderDynamicOverview", seen |-> menus ] >>
         \o (IF hasRouter THEN << [ fn |-> "handleCurrent", seen |-> menus ] >> ELSE <<>>)

lastSeen(calls, fn, default) ==
  LET hits == { i \in 1..Len(calls) : calls[i].fn = fn }
  IN IF hits = {} THEN default
     ELSE calls[CHOOSE i \in hits : \A j \in hits : j <= i].seen

\* The onSnapshot callback as a function of what it receives and reads: docs
\* delivered, the Directory held before (prev), whether the router exists,
\* and the path and route on screen.  It starts from `dynamicMenus = []`.
snapshotAppending(docs, prev, hasRouter, path, route) ==
  LET calls == snapshotCalls(docs, prev, hasRouter)
      routed == resolve(path, lastSeen(calls, "handleCurrent", <<>>))
  IN [ menus |-> lastSeen(calls, "renderDynamicMenus", <<>>),
       sidebar |-> renderSidebarDynamic(lastSeen(calls, "renderSidebarDynamic", <<>>)),
       calls |-> calls,
       path |-> IF hasRouter THEN routed.path ELSE path,
       route |-> IF hasRouter THEN routed.route ELSE route ]

snapshotCallback(docs, prev, hasRouter, path, route) ==
  LET calls == snapshotCalls(docs, <<>>, hasRouter)
      routed == resolve(path, lastSeen(calls, "handleCurrent", <<>>))
  IN [ menus |-> lastSeen(calls, "renderDynamicMenus", <<>>),
       sidebar |-> renderSidebarDynamic(lastSeen(calls, "renderSidebarDynamic", <<>>)),
       calls |-> calls,
       path |-> IF hasRouter THEN routed.path ELSE path,
       route |-> IF hasRouter THEN routed.route ELSE route ]

\* The whole onSnapshot callback for browser c receiving docs.
onMenusSnapshot(c, docs) ==
  LET after == snapshotCallback(docs, dynamicMenus[c], router[c],
                                currentPath[c], currentRoute[c])
  IN /\ dynamicMenus' = [dynamicMenus EXCEPT ![c] = after.menus]
     /\ sidebar' = [sidebar EXCEPT ![c] = after.sidebar]
     /\ callLog' = [callLog EXCEPT ![c] = after.calls]
     /\ currentPath' = [currentPath EXCEPT ![c] = after.path]
     /\ currentRoute' = [currentRoute EXCEPT ![c] = after.route]

\* The page before any menu exists.
InitDirectory ==
  /\ store = [ id \in MenuIds |-> NoDoc ]
  /\ nextId = 1
  /\ dynamicMenus = [ c \in Clients |-> <<>> ]
  /\ inflight = [ c \in Clients |-> NoWrite ]
  /\ router = [ c \in Clients |-> FALSE ]
  /\ currentPath = [ c \in Clients |-> Slash ]
  /\ currentRoute = [ c \in Clients |-> NoRoute ]
  /\ sidebar = [ c \in Clients |-> <<>> ]
  /\ callLog = [ c \in Clients |-> <<>> ]
  /\ dynamicTasks = [ c \in Clients |-> [ m \in MenuIds |-> {} ] ]
  /\ taskDocs = [ m \in MenuIds |-> NewTaskDoc ]
  /\ pendingTask = [ c \in Clients |-> NoTask ]
  /\ activityLogs = [ c \in Clients |-> <<>> ]
  /\ navLog = [ c \in Clients |-> <<>> ]

NoHandler == [ kind |-> "none", onSuccess |-> 0, onError |-> 0 ]
NoSync == [ pending |-> FALSE, before |-> NoTaskState, logBefore |-> <<>> ]
NoSection == [ kind |-> "none", menuId |-> Null, tasks |-> {} ]
NotCompleting == [ stage |-> "none", menuId |-> Null, taskId |-> Null ]

\* A task object: id, and the fields isTaskCompleted reads.
TaskObject(status, isCompleted, completionLink) ==
  [ id |-> <<"s", "1">>, status |-> status, isCompleted |-> isCompleted,
    completed |-> FALSE, completionLink |-> completionLink ]

InitCardVars ==
  /\ tiCopy = 2
  /\ task = TaskObject(Null, FALSE, Null)
  /\ taskState = NoTaskState
  /\ card = NoCard
  /\ cardOp = "none"
  /\ handlerCalls = NoHandler
  /\ syncWrite = NoSync
  /\ projectDoc = [ taskState |-> NoTaskState, activityLogs |-> <<>> ]

InitSectionVars ==
  /\ shown = NoSection
  /\ menuLoadingState = [ m \in MenuIds |-> FALSE ]
  /\ fetching = {}
  /\ completing = NotCompleting
  /\ linkInput = EmptyStr

InitUi ==
  /\ toast = "none"
  /\ unhandled = FALSE

NoCall == [ fn |-> "none", outcome |-> "none", returned |-> Null, count |-> 0 ]

CatalogOf(taskRow, assigneeRow) ==
  [ tasks |-> [ k \in { N_task1 } |-> taskRow ],
    assignees |-> [ u \in { N_user1 } |-> assigneeRow ] ]

NoReport == [ ran |-> FALSE, assignees |-> 0, menus |-> 0, tasks |-> 0 ]
NoOwnerResult == [ called |-> FALSE, success |-> FALSE, error |-> "none" ]

InitSetupVars ==
  /\ assigneeDocs = [ n \in StaticAssignees |-> 0 ]
  /\ menuDocs = [ n \in StaticMenus |-> 0 ]
  /\ menuTaskDocs = [ t \in StaticTasks |-> 0 ]
  /\ migrationReport = NoReport
  /\ authUser = FALSE
  /\ userDoc = "none"
  /\ ownerResult = NoOwnerResult

NoPagerCall == [ fn |-> "none", arg |-> 0 ]

InitPagerVars ==
  /\ pager = ActivityLog([ found |-> TRUE, activities |-> <<>>, itemsPerPage |-> 0 ])
  /\ lastPagerCall = NoPagerCall

\* ensureTaskEntry: a task without stored state is incomplete, no comments.
NoTaskEntry == [ completed |-> FALSE, comments |-> 0 ]

InitCommentVars ==
  /\ commentUi = [ taskState |-> [ id \in TaskIds |-> NoTaskEntry ],
                   openCommentSections |-> {},
                   autoOpenedCommentSections |-> {},
                   actionsHidden |-> [ id \in TaskIds |-> TRUE ],
                   commentHidden |-> [ id \in TaskIds |-> TRUE ] ]
  /\ closedByUser = {}
  /\ autoOpens = [ id \in TaskIds |-> 0 ]
  /\ lastUiOp = "none"

InitWidgetVars == InitPagerVars /\ InitCommentVars

InitBackendVars ==
  /\ InitSetupVars
  /\ InitWidgetVars
  /\ now = 0
  /\ catalog = CatalogOf(TaskRow(S_Fix, N_user1), AssigneeRow(N_user1, S_Jane))
  /\ notifications = {}
  /\ notificationRows = {}
  /\ nextNotification = 1
  /\ lastCall = NoCall

Init == InitDirectory /\ InitCardVars /\ InitSectionVars /\ InitUi /\ InitBackendVars

\* ------------------------------------------------------------ menu actions
\* Menu form submit.  form.id = Null creates a menu, otherwise it edits the
\* slug of a menu listed in this browser's Directory.
SaveMenu(c, form) ==
  /\ inflight[c] = NoWrite
  /\ form.id # Null => \E i \in 1..Len(dynamicMenus[c]) :
                          /\ dynamicMenus[c][i].id = form.id
                          /\ dynamicMenus[c][i].type = form.type
  /\ form.id = Null => nextId <= MaxMenus
  /\ IF validateSlug(form, dynamicMenus[c]) # "ok"
       THEN UNCHANGED << inflight, nextId >>
       ELSE IF form.id = Null
         THEN /\ inflight' = [inflight EXCEPT ![c] =
                    [ op |-> "create", id |-> MenuIdOf(nextId),
                      slug |-> form.slug, type |-> form.type ]]
              /\ nextId' = nextId + 1
         ELSE /\ inflight' = [inflight EXCEPT ![c] =
                    [ op |-> "update", id |-> form.id,
                      slug |-> form.slug, type |-> form.type ]]
              /\ UNCHANGED nextId
  /\ UNCHANGED << store, dynamicMenus, sidebar, callLog, routeVars, taskVars, pageVars >>

DeleteMenu(c, id) ==
  /\ inflight[c] = NoWrite
  /\ \E i \in 1..Len(dynamicMenus[c]) : dynamicMenus[c][i].id = id
  /\ inflight' = [inflight EXCEPT ![c] =
        [ op |-> "delete", id |-> id, slug |-> EmptyStr, type |-> "none" ]]
  /\ UNCHANGED << store, nextId, dynamicMenus, sidebar, callLog, routeVars, taskVars, pageVars >>

\* addDoc / updateDoc / deleteDoc as the store applies them.
applyWrite(st, w) ==
  CASE w.op = "create" ->
         [st EXCEPT ![w.id] = [ exists |-> TRUE, slug |-> w.slug, type |-> w.type ]]
    [] w.op = "update" /\ st[w.id].exists ->
         [st EXCEPT ![w.id].slug = w.slug]
    [] w.op = "delete" ->
         [st EXCEPT ![w.id] = NoDoc]
    [] OTHER -> st

\* The awaited write resolves: the store holds it, and the writer's own
\* menus listener has delivered the snapshot that contains it.
MenuWriteResolved(c) ==
  /\ inflight[c] # NoWrite
  /\ store' = applyWrite(store, inflight[c])
  /\ inflight' = [inflight EXCEPT ![c] = NoWrite]
  /\ onMenusSnapshot(c, SnapshotOf(store'))
  /\ UNCHANGED << nextId, router, taskVars, pageVars >>

\* The awaited write rejects (transport failure): nothing is stored.
MenuWriteRejected(c) ==
  /\ inflight[c] # NoWrite
  /\ inflight' = [inflight EXCEPT ![c] = NoWrite]
  /\ UNCHANGED << store, nextId, dynamicMenus, sidebar, callLog, routeVars, taskVars, pageVars >>

\* The menus subscription delivers the store's current documents.
MenusSnapshot(c) ==
  /\ onMenusSnapshot(c, SnapshotOf(store))
  /\ UNCHANGED << store, nextId, inflight, router, taskVars, pageVars >>

\* ---------------------------------------------------------- router actions
createRouter(c) ==
  /\ ~router[c]
  /\ router' = [router EXCEPT ![c] = TRUE]
  /\ LET routed == resolve(currentPath[c], dynamicMenus[c])
     IN /\ currentPath' = [currentPath EXCEPT ![c] = routed.path]
        /\ currentRoute' = [currentRoute EXCEPT ![c] = routed.route]
  /\ UNCHANGED << menuVars, taskVars, pageVars >>

\* router.navigate(path): link click or typed URL.
navigate(c, path) ==
  /\ router[c]
  /\ LET routed == resolve(path, dynamicMenus[c])
     IN /\ currentPath' = [currentPath EXCEPT ![c] = routed.path]
        /\ currentRoute' = [currentRoute EXCEPT ![c] = routed.route]
  /\ UNCHANGED << router, menuVars, taskVars, pageVars >>

\* ------------------------------------------------------------ task actions
\* loadMenuTasks(menuId) resolves for the section on screen.
loadMenuTasks(c) ==
  /\ router[c]
  /\ currentRoute[c].section = "dynamic-menu"
  /\ dynamicTasks[c][currentRoute[c].menuId] # TasksOf(currentRoute[c].menuId)
  /\ dynamicTasks' = [dynamicTasks EXCEPT ![c][currentRoute[c].menuId] =
                        TasksOf(currentRoute[c].menuId)]
  /\ UNCHANGED << menuVars, routeVars, taskDocs, pendingTask, activityLogs, navLog, pageVars >>

\* A task button of the section on screen is pressed: the handler issues
\* updateDoc(taskRef, ...) for (menuId, taskId) and awaits it.
startTaskAction(c, kind) ==
  /\ router[c]
  /\ currentRoute[c].section = "dynamic-menu"
  /\ pendingTask[c] = NoTask
  /\ Len(activityLogs[c]) < MaxLog
  /\ \E taskId \in dynamicTasks[c][currentRoute[c].menuId] :
       pendingTask' = [pendingTask EXCEPT ![c] =
          [ kind |-> kind, menuId |-> currentRoute[c].menuId, taskId |-> taskId ]]
  /\ UNCHANGED << menuVars, routeVars, dynamicTasks, taskDocs, activityLogs, navLog, pageVars >>

completeTask(c) == startTaskAction(c, "complete")
saveComment(c) == startTaskAction(c, "comment")
editLink(c) == startTaskAction(c, "editLink")
deleteResult(c) == startTaskAction(c, "deleteResult")

\* The fields each handler passes to updateDoc.
updateTaskDoc(doc, kind) ==
  CASE kind = "complete" -> [doc EXCEPT !.completed = TRUE]
    [] kind = "comment" -> [doc EXCEPT !.completedComment = TRUE]
    [] kind = "editLink" -> [doc EXCEPT !.completedLink = TRUE]
    [] kind = "deleteResult" -> [doc EXCEPT !.completed = FALSE, !.completedLink = FALSE]
    [] OTHER -> doc

\* The status each handler passes to recordActivityEntry.
statusOf(kind) ==
  CASE kind = "complete" -> "completed"
    [] kind = "comment" -> "edited"
    [] kind = "editLink" -> "edited"
    [] kind = "deleteResult" -> "deleted"
    [] OTHER -> "none"

\* taskId: `dynamic-${taskId}`
dynamicTaskId(taskId) == DynamicTaskPrefix \o taskId

\* recordActivityEntry: the entry put in front of activityLogs.
recordActivityEntryWithPath(p, menus) ==
  [ taskId |-> p.taskId, taskName |-> p.taskName, phase |-> p.phase,
    status |-> p.status,
    menuId |-> IF p.menuId # Null /\ p.menuId # EmptyStr
                 THEN getMenuPath(p.menuId, menus) ELSE Null ]

recordActivityEntry(p, menus) ==
  [ taskId |-> p.taskId, taskName |-> p.taskName, phase |-> p.phase,
    status |-> p.status,
    menuId |-> IF p.menuId # Null /\ p.menuId # EmptyStr THEN p.menuId ELSE Null ]

\* updateDoc resolved: the handler resumes and records the activity.
TaskWriteResolved(c) ==
  /\ pendingTask[c] # NoTask
  /\ LET t == pendingTask[c]
     IN /\ taskDocs' = [taskDocs EXCEPT ![t.menuId] = updateTaskDoc(@, t.kind)]
        /\ activityLogs' = [activityLogs EXCEPT ![c] =
             << recordActivityEntry(
                  [ taskId |-> dynamicTaskId(t.taskId),
                    taskName |-> <<"T">> \o Tail(t.taskId),
                    phase |-> IF t.kind = "complete" THEN MenuNameOf(t.menuId) ELSE Null,
                    status |-> statusOf(t.kind),
                    menuId |-> t.menuId ], dynamicMenus[c]) >> \o @]
  /\ pendingTask' = [pendingTask EXCEPT ![c] = NoTask]
  /\ UNCHANGED << menuVars, routeVars, dynamicTasks, navLog, pageVars >>

\* updateDoc rejected: the handler never reaches recordActivityEntry.
TaskWriteRejected(c) ==
  /\ pendingTask[c] # NoTask
  /\ pendingTask' = [pendingTask EXCEPT ![c] = NoTask]
  /\ UNCHANGED << menuVars, routeVars, dynamicTasks, taskDocs, activityLogs, navLog, pageVars >>

\* --------------------------------------------------------------- navigation
NoNav == [ navigated |-> FALSE, target |-> Null ]

\* navigateToTask(taskId, menuId): the path handed to router.navigate, if any.
navigateToTask(taskId, menuId, menus, tasks) ==
  IF taskId = Null \/ taskId = EmptyStr THEN NoNav
  ELSE IF ~startsWith(taskId, DynamicTaskPrefix) THEN NoNav
  ELSE
    LET actualTaskId == substring(taskId, 8)
        hasMenuId(m) == m.id = menuId
        byId == IF menuId # Null /\ menuId # EmptyStr
                  THEN find(menus, hasMenuId) ELSE NoMenu
        holders == { i \in 1..MaxMenus : actualTaskId \in tasks[MenuIdOf(i)] }
        searchMenuId == MenuIdOf(CHOOSE i \in holders : \A j \in holders : i <= j)
        hasSearchId(m) == m.id = searchMenuId
        foundMenu == IF byId # NoMenu THEN byId
                     ELSE IF holders = {} THEN NoMenu
                     ELSE find(menus, hasSearchId)
    IN IF foundMenu # NoMenu
         THEN [ navigated |-> TRUE, target |-> getMenuPath(foundMenu.id, menus) ]
         ELSE NoNav

\* Click on an entry of the activity log: data-jump-task and data-menu-id
\* of the entry go to navigateToTask.
activityLogClick(c, i) ==
  /\ router[c]
  /\ i \in 1..Len(activityLogs[c])
  /\ LET entry == activityLogs[c][i]
         menuId == IF entry.menuId # Null /\ entry.menuId # EmptyStr
                     THEN entry.menuId ELSE Null
         nav == navigateToTask(entry.taskId, menuId, dynamicMenus[c], dynamicTasks[c])
         routed == resolve(nav.target, dynamicMenus[c])
         outcome == [ menuId |-> entry.menuId,
                      navigated |-> nav.navigated, target |-> nav.target ]
     IN /\ navLog' = [navLog EXCEPT ![c] =
                        IF Len(@) < 2 THEN Append(@, outcome)
                        ELSE << @[2], outcome >>]
        /\ IF nav.navigated
             THEN /\ currentPath' = [currentPath EXCEPT ![c] = routed.path]
                  /\ currentRoute' = [currentRoute EXCEPT ![c] = routed.route]
             ELSE UNCHANGED << currentPath, currentRoute >>
  /\ UNCHANGED << router, menuVars, dynamicTasks, taskDocs, pendingTask, activityLogs, pageVars >>

\* ------------------------------------------------------------------ inputs
TaskList == "task-list"
ExternalLink == "external-link"

Form(id, slug, type) == [ id |-> id, slug |-> slug, type |-> type ]

RouterForms ==
  { Form(Null, s, TaskList) : s \in { S_a, S_b, S_quanlynguoidung, S_tongquan, S_upperA } }
    \cup { Form(Null, S_a, ExternalLink) }
    \cup { Form(id, s, TaskList) : id \in MenuIds, s \in { S_a, S_b, S_quanlynguoidung } }
    \cup { Form(id, S_a, ExternalLink) : id \in MenuIds }

RouterPaths ==
  { Slash \o S_tongquan, Slash \o S_quanlynguoidung, Slash \o S_a, Slash \o S_b,
    Slash \o S_upperA \o Slash }
    \cup { Slash \o DynamicMenuPrefix \o id : id \in MenuIds }

RaceForms ==
  { Form(Null, S_a, TaskList) } \cup { Form(id, S_a, TaskList) : id \in MenuIds }

ActivityForms ==
  { Form(Null, S_a, TaskList) } \cup { Form(MenuIdOf(1), s, TaskList) : s \in { S_a, S_b } }

\* ---------------------------------------------------------- specifications
\* One browser under observation, one remote administrator editing menus.
Next ==
  \/ \E form \in RouterForms : SaveMenu(Editor, form)
  \/ \E id \in MenuIds : DeleteMenu(Editor, id)
  \/ MenuWriteResolved(Editor)
  \/ MenuWriteRejected(Editor)
  \/ MenusSnapshot(Viewer)
  \/ createRouter(Viewer)
  \/ \E path \in RouterPaths : navigate(Viewer, path)

Spec == Init /\ [][Next]_vars

\* Several administrators editing menus at once.
NextRace ==
  \/ \E c \in Clients : \E form \in RaceForms : SaveMenu(c, form)
  \/ \E c \in Clients : MenuWriteResolved(c)
  \/ \E c \in Clients : MenuWriteRejected(c)
  \/ \E c \in Clients : MenusSnapshot(c)

SpecRace == Init /\ [][NextRace]_vars

\* Task actions and activity-log navigation in the observed browser while
\* the remote administrator renames and deletes menus.
NextActivity ==
  \/ \E form \in ActivityForms : SaveMenu(Editor, form)
  \/ \E id \in MenuIds : DeleteMenu(Editor, id)
  \/ MenuWriteResolved(Editor)
  \/ MenusSnapshot(Viewer)
  \/ createRouter(Viewer)
  \/ \E i \in 1..(MaxMenus + 1) : i <= Len(sidebar[Viewer]) /\ navigate(Viewer, sidebar[Viewer][i])
  \/ loadMenuTasks(Viewer)
  \/ completeTask(Viewer)
  \/ saveComment(Viewer)
  \/ editLink(Viewer)
  \/ deleteResult(Viewer)
  \/ TaskWriteResolved(Viewer)
  \/ TaskWriteRejected(Viewer)
  \/ \E i \in 1..MaxLog : activityLogClick(Viewer, i)

SpecActivity == Init /\ [][NextActivity]_vars

\* ================================================================== claims
StaticPaths == DOMAIN routeConfig

InDirectory(c, id) == \E i \in 1..Len(dynamicMenus[c]) : dynamicMenus[c][i].id = id

CallCount(calls, fn) == Cardinality({ i \in 1..Len(calls) : calls[i].fn = fn })

Dependents == { "renderDynamicMenus", "renderSidebarDynamic", "renderDynamicOverview" }

\* C1: a click on an activity entry whose menu is in the Directory navigates
\* to "/" followed by the slug the Directory holds for that menu at the moment
\* of the click, whatever the slug was when the entry was recorded.
C1_LiveRename ==
  [][ \A c \in Clients :
        navLog'[c] # navLog[c] =>
          LET o == navLog'[c][Len(navLog'[c])]
          IN \A i \in 1..Len(dynamicMenus[c]) :
               (dynamicMenus[c][i].id = o.menuId /\ dynamicMenus[c][i].slug # EmptyStr)
                 => (o.navigated /\ o.target = Slash \o dynamicMenus[c][i].slug) ]_vars

\* The same entry was clicked twice, before and after the rename a -> b.
C1_Witness ==
  \E c \in Clients :
    /\ Len(navLog[c]) = 2
    /\ navLog[c][1].menuId = navLog[c][2].menuId
    /\ navLog[c][1].target = Slash \o S_a
    /\ navLog[c][2].target = Slash \o S_b

\* C2: a click on an activity entry whose menu is no longer in the Directory
\* navigates to the fallback path /tongquan.
C2_DeletedFallback ==
  [][ \A c \in Clients :
        navLog'[c] # navLog[c] =>
          LET o == navLog'[c][Len(navLog'[c])]
          IN (o.menuId # Null /\ ~InDirectory(c, o.menuId))
               => (o.navigated /\ o.target = Slash \o S_tongquan) ]_vars

\* C3: every task-list menu of the Directory that has a slug s is the dynamic
\* route resolve("/" + s) returns.
C3_TaskListSlugResolves ==
  \A c \in Clients : \A i \in 1..Len(dynamicMenus[c]) :
    LET m == dynamicMenus[c][i]
        r == resolve(Slash \o m.slug, dynamicMenus[c])
    IN (m.type = TaskList /\ m.slug # EmptyStr)
         => (r.route.section = "dynamic-menu" /\ r.route.menuId = m.id)

\* C4: every path of the static route table resolves to its static route,
\* whatever the Directory holds, and a browser standing on a static path
\* shows that static route.
C4_StaticPrecedence ==
  \A c \in Clients :
    /\ \A p \in StaticPaths :
         resolve(p, dynamicMenus[c]) =
           [ path |-> p, route |-> routeConfig[p], notFound |-> FALSE ]
    /\ (router[c] /\ currentPath[c] \in StaticPaths)
         => currentRoute[c] = routeConfig[currentPath[c]]

\* A task-list menu whose slug is a static route name is in the Directory
\* and the browser, sent to that path, shows the static page.
C4_Witness ==
  \E c \in Clients :
    /\ router[c]
    /\ currentPath[c] = Slash \o S_quanlynguoidung
    /\ currentRoute[c] = routeConfig[Slash \o S_quanlynguoidung]
    /\ \E i \in 1..Len(dynamicMenus[c]) :
         /\ dynamicMenus[c][i].type = TaskList
         /\ dynamicMenus[c][i].slug = S_quanlynguoidung

ProbePaths(c) ==
  RouterPaths \cup StaticPaths
    \cup { Slash \o dynamicMenus[c][i].slug : i \in 1..Len(dynamicMenus[c]) }

\* C5: no path resolves to a dynamic route of an external-link menu, and the
\* route on screen is never the section of an external-link menu of the
\* Directory.
C5_ExternalLinkNeverRouted ==
  \A c \in Clients :
    /\ \A p \in ProbePaths(c) :
         LET r == resolve(p, dynamicMenus[c])
         IN r.route.section = "dynamic-menu" =>
              \A i \in 1..Len(dynamicMenus[c]) :
                dynamicMenus[c][i].id = r.route.menuId => dynamicMenus[c][i].type = TaskList
    /\ currentRoute[c].section = "dynamic-menu" =>
         \A i \in 1..Len(dynamicMenus[c]) :
           dynamicMenus[c][i].id = currentRoute[c].menuId
             => dynamicMenus[c][i].type # ExternalLink

\* An external-link menu with slug "a" is in the Directory of a browser with
\* a router: /a and /dynamic-menu/<id> both come out not-found.
C5_Witness ==
  \E c \in Clients : \E i \in 1..Len(dynamicMenus[c]) :
    /\ router[c]
    /\ dynamicMenus[c][i].type = ExternalLink
    /\ dynamicMenus[c][i].slug = S_a
    /\ resolve(Slash \o S_a, dynamicMenus[c]).notFound
    /\ resolve(Slash \o DynamicMenuPrefix \o dynamicMenus[c][i].id, dynamicMenus[c]).notFound
    /\ currentPath[c] = Slash

\* C6: when a Directory refresh changes the slug of task-list menu m from a
\* to b and no entry keeps slug a, then /a is not-found, /b is the dynamic
\* route of m, and a browser that stood on /a no longer shows m under /a.
C6_RenameReResolved ==
  [][ \A c \in Clients :
        \A i \in 1..Len(dynamicMenus[c]) : \A j \in 1..Len(dynamicMenus'[c]) :
          LET old == dynamicMenus[c][i]
              new == dynamicMenus'[c][j]
          IN ( /\ old.id = new.id
               /\ new.type = TaskList
               /\ old.slug # EmptyStr /\ new.slug # EmptyStr
               /\ old.slug # new.slug
               /\ \A k \in 1..Len(dynamicMenus'[c]) : dynamicMenus'[c][k].slug # old.slug )
             => ( /\ resolve(Slash \o old.slug, dynamicMenus'[c]).notFound
                  /\ resolve(Slash \o new.slug, dynamicMenus'[c]).route.section = "dynamic-menu"
                  /\ resolve(Slash \o new.slug, dynamicMenus'[c]).route.menuId = new.id
                  /\ (router[c] /\ currentPath[c] = Slash \o old.slug)
                       => ~( currentPath'[c] = Slash \o old.slug
                             /\ currentRoute'[c].menuId = new.id ) ) ]_vars

\* C7: every recorded activity entry carries the id of the menu its task
\* belongs to, has no slug/path/url field, and none of its text fields holds
\* a URL path or a slug.
C7_EntriesCarryMenuId ==
  \A c \in Clients : \A i \in 1..Len(activityLogs[c]) :
    LET e == activityLogs[c][i]
    IN /\ e.menuId \in MenuIds
       /\ e.taskId = dynamicTaskId(TaskIdOf(e.menuId))
       /\ DOMAIN e \cap { "slug", "path", "url", "href" } = {}
       /\ \A f \in { "taskId", "taskName", "phase", "menuId" } :
            /\ e[f] \notin { S_a, S_b, S_quanlynguoidung }
            /\ ~startsWith(e[f], Slash)

\* An entry was recorded by a task action and the menu it names has since
\* been renamed to slug "b" in the recording browser's Directory.
C7_Witness ==
  \E c \in Clients : \E i \in 1..Len(activityLogs[c]) : \E k \in 1..Len(dynamicMenus[c]) :
    /\ activityLogs[c][i].status = "edited"
    /\ dynamicMenus[c][k].id = activityLogs[c][i].menuId
    /\ dynamicMenus[c][k].slug = S_b

\* C8: no two stored menus have the same slug.
C8_SlugUnique ==
  \A id1 \in MenuIds : \A id2 \in MenuIds :
    ( /\ id1 # id2
      /\ store[id1].exists /\ store[id2].exists
      /\ store[id1].slug # EmptyStr )
    => store[id1].slug # store[id2].slug

\* C9: no menu write in flight and no stored task-list menu has the name of a
\* static route as its slug.
C9_ReservedRejected ==
  /\ \A c \in Clients :
       inflight[c].op \in { "create", "update" }
         => Slash \o inflight[c].slug \notin StaticPaths
  /\ \A id \in MenuIds :
       (store[id].exists /\ store[id].type = TaskList)
         => Slash \o store[id].slug \notin StaticPaths

\* C10 as stated: once a snapshot has been delivered to the observed
\* browser, each of the four dependents, handleCurrent included, has run
\* exactly once for it and has read the whole new Directory.
C10_OncePerSnapshotAlways ==
  callLog[Viewer] # <<>> =>
    /\ \A fn \in Dependents \cup { "handleCurrent" } : CallCount(callLog[Viewer], fn) = 1
    /\ \A i \in 1..Len(callLog[Viewer]) : callLog[Viewer][i].seen = dynamicMenus[Viewer]

\* C10 amended: every snapshot delivery runs each of the three renderers
\* exactly once, runs handleCurrent exactly once if the router exists and not
\* at all otherwise, and every dependent reads the whole new Directory, which
\* is the delivered snapshot.
C10_OncePerSnapshot ==
  /\ [] \A c \in Clients :
          callLog[c] # <<>> =>
            /\ \A fn \in Dependents : CallCount(callLog[c], fn) = 1
            /\ CallCount(callLog[c], "handleCurrent") <= 1
            /\ \A i \in 1..Len(callLog[c]) : callLog[c][i].seen = dynamicMenus[c]
  /\ [][ \A c \in Clients :
           (callLog'[c] # callLog[c] \/ dynamicMenus'[c] # dynamicMenus[c]) =>
             /\ CallCount(callLog'[c], "handleCurrent") = (IF router[c] THEN 1 ELSE 0)
             /\ \A fn \in Dependents : CallCount(callLog'[c], fn) = 1
             /\ Len(dynamicMenus'[c]) = Cardinality({ id \in MenuIds : store'[id].exists })
             /\ \A i \in 1..Len(dynamicMenus'[c]) :
                  /\ store'[dynamicMenus'[c][i].id].exists
                  /\ store'[dynamicMenus'[c][i].id].slug = dynamicMenus'[c][i].slug ]_vars

\* A snapshot of two menus was delivered to a browser whose router exists.
C10_Witness ==
  \E c \in Clients :
    /\ Len(dynamicMenus[c]) = 2
    /\ router[c]
    /\ CallCount(callLog[c], "handleCurrent") = 1
    /\ CallCount(callLog[c], "renderSidebarDynamic") = 1


\* C11: delivering the same menus snapshot a second time changes nothing:
\* the Directory, the sidebar links, the path and the route on screen after
\* the second delivery equal those after the first.
C11_SnapshotIdempotent ==
  \A c \in Clients :
    LET docs == SnapshotOf(store)
        first == snapshotCallback(docs, dynamicMenus[c], router[c],
                                  currentPath[c], currentRoute[c])
        second == snapshotCallback(docs, first.menus, router[c], first.path, first.route)
    IN /\ second.menus = first.menus
       /\ second.sidebar = first.sidebar
       /\ second.path = first.path
       /\ second.route = first.route

\* The browser stands on the dynamic route of a menu whose slug the store
\* has since changed: the first delivery changes the Directory, the sidebar
\* and the route on screen, so the second has something to repeat.
C11_Witness ==
  \E c \in Clients :
    LET docs == SnapshotOf(store)
        first == snapshotCallback(docs, dynamicMenus[c], router[c],
                                  currentPath[c], currentRoute[c])
    IN /\ router[c]
       /\ currentRoute[c].section = "dynamic-menu"
       /\ docs # <<>>
       /\ first.menus # dynamicMenus[c]
       /\ first.sidebar # sidebar[c]
       /\ first.route # currentRoute[c]


\* ================================================================ task card
\* One task card of the static task list in the browser Viewer.

\* TaskItem.js is included by <script src="./TaskItem.js">; tiCopy says which
\* of its two declarations of each function the page runs.
isTaskCompletedInEffect(t, ts) ==
  IF tiCopy = 1 THEN isTaskCompleted(t, ts) ELSE isTaskCompletedAt500(t, ts)

createTaskItemInEffect(t, ts) ==
  IF tiCopy = 1 THEN createTaskItem(t, ts) ELSE createTaskItemAt554(t, ts)

updateTaskCardUIInEffect(cd, t, ts) ==
  IF tiCopy = 1 THEN updateTaskCardUI(cd, t, ts) ELSE updateTaskCardUIAt786(cd, t, ts)

S_DoneSpaced == << " ", "D", "o", "n", "e", " " >>
S_HOANTHANH == << "H", "O", "A_grave", "N", " ", "T", "H", "A_grave", "N", "H" >>
S_link == << "h", ":", "x" >>

TaskSamples ==
  { TaskObject(Null, FALSE, Null),
    TaskObject(S_DoneSpaced, FALSE, Null),
    TaskObject(S_HOANTHANH, FALSE, Null),
    TaskObject(Null, TRUE, Null),
    TaskObject(Null, FALSE, S_link) }

TaskStateSamples ==
  { NoTaskState,
    [NoTaskState EXCEPT !.present = TRUE, !.completed = TRUE, !.link = S_link,
                        !.completedAt = TRUE],
    [NoTaskState EXCEPT !.present = TRUE, !.status = S_HOANTHANH],
    [NoTaskState EXCEPT !.present = TRUE, !.status = S_DoneSpaced] }

LinkSamples ==
  { EmptyStr, << " " >>, << "x" >>, S_link, << " " >> \o S_link \o << " " >> }

\* The page with the project document loaded and no card rendered yet.
InitCard ==
  /\ InitDirectory /\ InitSectionVars /\ InitUi /\ InitBackendVars
  /\ tiCopy \in { 1, 2 }
  /\ task \in TaskSamples
  /\ taskState \in TaskStateSamples
  /\ card = NoCard
  /\ cardOp = "none"
  /\ handlerCalls = NoHandler
  /\ syncWrite = NoSync
  /\ projectDoc = [ taskState |-> taskState, activityLogs |-> <<>> ]

directoryVars == << menuVars, routeVars, dynamicTasks, taskDocs, pendingTask, navLog >>

\* renderTaskList: container.appendChild(createTaskItem({ task, taskState }))
RenderCard ==
  /\ card' = createTaskItemInEffect(task, taskState)
  /\ cardOp' = "create"
  /\ UNCHANGED << otherVars, tiCopy, task, taskState, handlerCalls, syncWrite, projectDoc,
                  directoryVars, activityLogs, sectionVars, uiVars >>

\* The user types into the link field.
TypeLink(typed) ==
  /\ card.exists /\ ~card.inputGroupHidden /\ ~card.inputDisabled
  /\ card' = onLinkInput(card, typed)
  /\ cardOp' = "input"
  /\ UNCHANGED << otherVars, tiCopy, task, taskState, handlerCalls, syncWrite, projectDoc,
                  directoryVars, activityLogs, sectionVars, uiVars >>

\* syncTaskState(): updateProjectData({ taskState, activityLogs }) is issued
\* with the values held at the call; before and logBefore remember what the
\* memory held when the action started.
syncTaskState(ts, logs, before, logBefore) ==
  [ pending |-> TRUE, taskState |-> ts, activityLogs |-> logs,
    before |-> before, logBefore |-> logBefore ]

\* Click on Complete: handleTaskComplete, and on success syncTaskState() and
\* recordActivityEntry.
ClickComplete ==
  /\ card.exists /\ ~card.inputGroupHidden /\ ~card.completeDisabled
  /\ ~syncWrite.pending
  /\ Len(activityLogs[Viewer]) < MaxLog
  /\ LET done == handleTaskComplete(card, taskState)
         entry == recordActivityEntry(
                    [ taskId |-> task.id, taskName |-> << "T", "1" >>, phase |-> Null,
                      status |-> "completed", menuId |-> Null ], dynamicMenus[Viewer])
     IN /\ taskState' = done.entry
        /\ handlerCalls' = [ kind |-> "complete", onSuccess |-> done.onSuccess,
                             onError |-> done.onError ]
        /\ IF done.onSuccess > 0
             THEN /\ syncWrite' = syncTaskState(done.entry, activityLogs[Viewer],
                                                taskState, activityLogs[Viewer])
                  /\ activityLogs' = [activityLogs EXCEPT ![Viewer] = << entry >> \o @]
             ELSE UNCHANGED << syncWrite, activityLogs >>
  /\ cardOp' = "handler"
  /\ UNCHANGED << otherVars, tiCopy, task, card, projectDoc, directoryVars, sectionVars, uiVars >>

\* Click on Edit in the footer: handleTaskEdit, then syncTaskState().
ClickEdit ==
  /\ card.exists /\ ~card.footerHidden
  /\ ~syncWrite.pending
  /\ LET edited == handleTaskEdit(taskState)
     IN /\ taskState' = edited.entry
        /\ handlerCalls' = [ kind |-> "edit", onSuccess |-> edited.onSuccess,
                             onError |-> edited.onError ]
        /\ syncWrite' = syncTaskState(edited.entry, activityLogs[Viewer],
                                      taskState, activityLogs[Viewer])
  /\ cardOp' = "handler"
  /\ UNCHANGED << otherVars, tiCopy, task, card, projectDoc, directoryVars, activityLogs,
                  sectionVars, uiVars >>

\* Click on Comment in the comment section: saveTaskComment, then
\* syncTaskState().
SaveComment ==
  /\ card.exists /\ ~card.commentHidden
  /\ ~syncWrite.pending
  /\ ~taskState.comments
  /\ taskState' = saveTaskComment(taskState)
  /\ handlerCalls' = [ kind |-> "comment", onSuccess |-> 0, onError |-> 0 ]
  /\ syncWrite' = syncTaskState(saveTaskComment(taskState), activityLogs[Viewer],
                                taskState, activityLogs[Viewer])
  /\ cardOp' = "handler"
  /\ UNCHANGED << otherVars, tiCopy, task, card, projectDoc, directoryVars, activityLogs,
                  sectionVars, uiVars >>

\* updateDoc(projects/{projectId}, {...}) resolved: the store holds the update.
SyncResolved ==
  /\ syncWrite.pending
  /\ projectDoc' = [ taskState |-> syncWrite.taskState,
                     activityLogs |-> syncWrite.activityLogs ]
  /\ syncWrite' = NoSync
  /\ cardOp' = "none"
  /\ UNCHANGED << otherVars, tiCopy, task, taskState, card, handlerCalls, directoryVars,
                  activityLogs, sectionVars, uiVars >>

\* updateDoc rejected: nothing of the page runs on the rejection.
SyncRejected ==
  /\ syncWrite.pending
  /\ syncWrite' = [NoSync EXCEPT !.before = syncWrite.before,
                                 !.logBefore = syncWrite.logBefore]
  /\ cardOp' = "rejected"
  /\ UNCHANGED << otherVars, tiCopy, task, taskState, card, handlerCalls, projectDoc,
                  directoryVars, activityLogs, sectionVars, uiVars >>

\* updateTaskList(containerId, taskStates, tasks): updateTaskCardUI per card.
updateTaskList ==
  /\ card.exists
  /\ card' = updateTaskCardUIInEffect(card, task, taskState)
  /\ cardOp' = "update"
  /\ UNCHANGED << otherVars, tiCopy, task, taskState, handlerCalls, syncWrite, projectDoc,
                  directoryVars, activityLogs, sectionVars, uiVars >>

\* onSnapshot(projectRef): the stored taskState and activityLogs are assigned
\* to the memory, then updateUI().
ProjectSnapshot ==
  /\ ~syncWrite.pending
  /\ taskState # projectDoc.taskState \/ activityLogs[Viewer] # projectDoc.activityLogs
  /\ taskState' = projectDoc.taskState
  /\ activityLogs' = [activityLogs EXCEPT ![Viewer] = projectDoc.activityLogs]
  /\ card' = updateTaskCardUIInEffect(card, task, projectDoc.taskState)
  /\ cardOp' = IF card.exists THEN "update" ELSE "none"
  /\ UNCHANGED << otherVars, tiCopy, task, handlerCalls, syncWrite, projectDoc, directoryVars,
                  sectionVars, uiVars >>

NextCard ==
  \/ RenderCard
  \/ \E typed \in LinkSamples : TypeLink(typed)
  \/ ClickComplete
  \/ ClickEdit
  \/ SaveComment
  \/ SyncResolved
  \/ SyncRejected
  \/ updateTaskList
  \/ ProjectSnapshot

SpecCard == InitCard /\ [][NextCard]_vars


\* ========================================================== dynamic section
\* The tasks container of the browser Viewer while it moves between menus.
Section(kind, menuId, tasks) == [ kind |-> kind, menuId |-> menuId, tasks |-> tasks ]

\* The router before the fix: the section is rendered from whatever
\* dynamicTasks[menuId] holds and loadMenuTasks is never called.
showDynamicMenuSectionBeforeFix(menuId, menus, tasks) ==
  LET hasId(m) == m.id = menuId
  IN IF find(menus, hasId) = NoMenu
       THEN [ shown |-> Section("notfound", menuId, {}), fetch |-> FALSE ]
       ELSE [ shown |-> Section("tasks", menuId, tasks[menuId]), fetch |-> FALSE ]

\* showDynamicMenuSection(menuId): what the container shows, and whether
\* loadMenuTasks(menuId) is called.
showDynamicMenuSection(menuId, menus, tasks) ==
  LET hasId(m) == m.id = menuId
  IN IF find(menus, hasId) = NoMenu
       THEN [ shown |-> Section("notfound", menuId, {}), fetch |-> FALSE ]
     ELSE IF tasks[menuId] # {}
       THEN [ shown |-> Section("tasks", menuId, tasks[menuId]), fetch |-> FALSE ]
     ELSE [ shown |-> Section("loading", menuId, {}), fetch |-> TRUE ]

SectionSlug(i) == << "p", Digit(i) >>

SectionStore ==
  [ id \in MenuIds |->
      [ exists |-> TRUE,
        slug |-> SectionSlug(CHOOSE i \in 1..MaxMenus : MenuIdOf(i) = id),
        type |-> "task-list" ] ]

\* The page after login: every menu of the store is in the Directory, the
\* router runs and the overview is on screen; no task list is cached.
InitSection ==
  /\ InitCardVars /\ InitUi /\ InitBackendVars
  /\ store = SectionStore
  /\ nextId = MaxMenus + 1
  /\ LET loaded == snapshotCallback(SnapshotOf(SectionStore), <<>>, TRUE,
                                    Slash \o S_tongquan, NoRoute)
     IN /\ dynamicMenus = [ c \in Clients |-> loaded.menus ]
        /\ sidebar = [ c \in Clients |-> loaded.sidebar ]
        /\ callLog = [ c \in Clients |-> loaded.calls ]
        /\ currentPath = [ c \in Clients |-> loaded.path ]
        /\ currentRoute = [ c \in Clients |-> loaded.route ]
  /\ inflight = [ c \in Clients |-> NoWrite ]
  /\ router = [ c \in Clients |-> TRUE ]
  /\ dynamicTasks = [ c \in Clients |-> [ m \in MenuIds |-> {} ] ]
  /\ taskDocs = [ m \in MenuIds |-> NewTaskDoc ]
  /\ pendingTask = [ c \in Clients |-> NoTask ]
  /\ activityLogs = [ c \in Clients |-> <<>> ]
  /\ navLog = [ c \in Clients |-> <<>> ]
  /\ shown = Section("static", Null, {})
  /\ menuLoadingState = [ m \in MenuIds |-> FALSE ]
  /\ fetching = {}
  /\ completing = NotCompleting
  /\ linkInput = EmptyStr

\* Click on the i-th sidebar link: router.navigate, then the route handler,
\* which calls showDynamicMenuSection(route.menuId) on a dynamic route.
clickNavLink(i) ==
  /\ i \in 1..Len(sidebar[Viewer])
  /\ LET routed == resolve(sidebar[Viewer][i], dynamicMenus[Viewer])
         menuId == routed.route.menuId
         section == showDynamicMenuSection(menuId, dynamicMenus[Viewer],
                                           dynamicTasks[Viewer])
     IN /\ currentPath' = [currentPath EXCEPT ![Viewer] = routed.path]
        /\ currentRoute' = [currentRoute EXCEPT ![Viewer] = routed.route]
        /\ IF routed.route.section = "dynamic-menu"
             THEN /\ shown' = section.shown
                  /\ IF section.fetch
                       THEN /\ menuLoadingState' = [menuLoadingState EXCEPT ![menuId] = TRUE]
                            /\ fetching' = fetching \cup { menuId }
                       ELSE UNCHANGED << menuLoadingState, fetching >>
             ELSE /\ shown' = Section("static", Null, {})
                  /\ UNCHANGED << menuLoadingState, fetching >>
  /\ UNCHANGED << otherVars, router, menuVars, taskVars, cardVars, completing, linkInput, uiVars >>

\* loadMenuTasks(menuId).then(...): the fetch resolved.
FetchResolved(menuId) ==
  /\ menuId \in fetching
  /\ fetching' = fetching \ { menuId }
  /\ dynamicTasks' = [dynamicTasks EXCEPT ![Viewer][menuId] = TasksOf(menuId)]
  /\ shown' = Section("tasks", menuId, TasksOf(menuId))
  /\ menuLoadingState' = [menuLoadingState EXCEPT ![menuId] = FALSE]
  /\ UNCHANGED << otherVars, menuVars, routeVars, taskDocs, pendingTask, activityLogs, navLog,
                  cardVars, completing, linkInput, uiVars >>

\* loadMenuTasks(menuId).catch(...): the fetch rejected.
FetchRejected(menuId) ==
  /\ menuId \in fetching
  /\ fetching' = fetching \ { menuId }
  /\ shown' = Section("error", menuId, {})
  /\ UNCHANGED << otherVars, menuVars, routeVars, taskVars, cardVars, menuLoadingState,
                  completing, linkInput, uiVars >>

\* The user types into #dynamic-task-input-{taskId}.
typeDynamicLink(typed) ==
  /\ shown.kind = "tasks" /\ shown.tasks # {}
  /\ ~taskDocs[shown.menuId].completed
  /\ linkInput' = typed
  /\ UNCHANGED << otherVars, menuVars, routeVars, taskVars, cardVars, shown, menuLoadingState,
                  fetching, completing, uiVars >>

\* onclick="completeDynamicTask(menuId, taskId)" up to its first await.
completeDynamicTask ==
  /\ shown.kind = "tasks"
  /\ ~taskDocs[shown.menuId].completed
  /\ completing = NotCompleting
  /\ \E taskId \in shown.tasks :
       LET link == trim(linkInput)
       IN IF ~truthy(link) \/ ~parsesAsURL(link)
            THEN /\ toast' = "error"
                 /\ UNCHANGED completing
            ELSE /\ completing' = [ stage |-> "write", menuId |-> shown.menuId,
                                    taskId |-> taskId ]
                 /\ UNCHANGED toast
  /\ UNCHANGED << otherVars, menuVars, routeVars, taskVars, cardVars, shown, menuLoadingState,
                  fetching, linkInput, unhandled >>

\* await updateDoc(...) resolved: showToast(success), then loadMenuTasks is
\* awaited.
CompleteWriteResolved ==
  /\ completing.stage = "write"
  /\ taskDocs' = [taskDocs EXCEPT ![completing.menuId] =
                    [@ EXCEPT !.completed = TRUE, !.completedLink = TRUE]]
  /\ toast' = "success"
  /\ completing' = [completing EXCEPT !.stage = "reload"]
  /\ UNCHANGED << otherVars, menuVars, routeVars, dynamicTasks, pendingTask, activityLogs, navLog,
                  cardVars, shown, menuLoadingState, fetching, linkInput, unhandled >>

\* await updateDoc(...) rejected: the async function rejects; the onclick
\* attribute drops the promise.
CompleteWriteRejected ==
  /\ completing.stage = "write"
  /\ completing' = NotCompleting
  /\ unhandled' = TRUE
  /\ UNCHANGED << otherVars, menuVars, routeVars, taskVars, cardVars, shown, menuLoadingState,
                  fetching, linkInput, toast >>

\* await loadMenuTasks(menuId) resolved: showDynamicMenuSection(menuId) and
\* renderDynamicOverview().
CompleteReloadResolved ==
  /\ completing.stage = "reload"
  /\ LET menuId == completing.menuId
         tasks == [dynamicTasks[Viewer] EXCEPT ![menuId] = TasksOf(menuId)]
         section == showDynamicMenuSection(menuId, dynamicMenus[Viewer], tasks)
     IN /\ dynamicTasks' = [dynamicTasks EXCEPT ![Viewer] = tasks]
        /\ shown' = section.shown
        /\ IF section.fetch
             THEN /\ menuLoadingState' = [menuLoadingState EXCEPT ![menuId] = TRUE]
                  /\ fetching' = fetching \cup { menuId }
             ELSE UNCHANGED << menuLoadingState, fetching >>
  /\ completing' = NotCompleting
  /\ linkInput' = EmptyStr
  /\ UNCHANGED << otherVars, menuVars, routeVars, taskDocs, pendingTask, activityLogs, navLog,
                  cardVars, uiVars >>

\* await loadMenuTasks(menuId) rejected.
CompleteReloadRejected ==
  /\ completing.stage = "reload"
  /\ completing' = NotCompleting
  /\ unhandled' = TRUE
  /\ UNCHANGED << otherVars, menuVars, routeVars, taskVars, cardVars, shown, menuLoadingState,
                  fetching, linkInput, toast >>

NextSection ==
  \/ \E i \in 1..(MaxMenus + 1) : clickNavLink(i)
  \/ \E m \in MenuIds : FetchResolved(m)
  \/ \E m \in MenuIds : FetchRejected(m)
  \/ \E typed \in { EmptyStr, << "x" >>, S_link } : typeDynamicLink(typed)
  \/ completeDynamicTask
  \/ CompleteWriteResolved
  \/ CompleteWriteRejected
  \/ CompleteReloadResolved
  \/ CompleteReloadRejected

SpecSection == InitSection /\ [][NextSection]_vars

\* ==================================================== notification backend
\* The comment notifications of one project, kept in Firestore and in SQL,
\* and the daily cleanup.
NotificationId(i) == << "n", Digit(i) >>

CatalogSamples ==
  { CatalogOf(NoRow, AssigneeRow(N_user1, S_Jane)),
    CatalogOf(TaskRow(S_Fix, Null), AssigneeRow(N_user1, S_Jane)),
    CatalogOf(TaskRow(S_Fix, N_user1), NoRow),
    CatalogOf(TaskRow(S_Fix, N_user1), AssigneeRow(N_user1, S_Jane)),
    CatalogOf(TaskRow(Null, N_user1), AssigneeRow(N_user1, S_Jane)) }

InitNotify ==
  /\ InitDirectory /\ InitCardVars /\ InitSectionVars /\ InitUi /\ InitSetupVars
  /\ InitWidgetVars
  /\ now = 0
  /\ catalog \in CatalogSamples
  /\ notifications = {}
  /\ notificationRows = {}
  /\ nextNotification = 1
  /\ lastCall = NoCall

frontVars == << directoryVars, activityLogs, cardVars, sectionVars, uiVars, widgetVars >>

Called(fn, result) ==
  [ fn |-> fn, outcome |-> result.outcome, returned |-> result.returned, count |-> 0 ]

\* A day passes.
Tick ==
  /\ now < MaxDay
  /\ now' = now + 1
  /\ lastCall' = [NoCall EXCEPT !.fn = "tick"]
  /\ UNCHANGED << catalog, notifications, notificationRows, nextNotification, frontVars, setupVars >>

\* A user comments on taskId; the Firestore backend is called.
CommentFirestore(taskId) ==
  /\ nextNotification <= MaxNotifications
  /\ LET result == createCommentNotification_Firestore(taskId, S_great, S_John, catalog,
                     NotificationId(nextNotification), now)
     IN /\ notifications' = notifications \cup result.created
        /\ nextNotification' = nextNotification + Cardinality(result.created)
        /\ lastCall' = Called("createCommentNotification_Firestore", result)
  /\ UNCHANGED << now, catalog, notificationRows, frontVars, setupVars >>

\* A user comments on taskId; the SQL backend is called.
CommentSQL(taskId) ==
  /\ nextNotification <= MaxNotifications
  /\ LET result == createCommentNotification_SQL(taskId, S_great, S_John, catalog,
                     NotificationId(nextNotification), now)
     IN /\ notificationRows' = notificationRows \cup result.created
        /\ nextNotification' = nextNotification + Cardinality(result.created)
        /\ lastCall' = Called("createCommentNotification_SQL", result)
  /\ UNCHANGED << now, catalog, notifications, frontVars, setupVars >>

\* The recipient reads a notification: is_read becomes true.
ReadNotification(id) ==
  /\ \E n \in notifications \cup notificationRows : n.id = id /\ ~n.is_read
  /\ notifications' = { IF n.id = id THEN [n EXCEPT !.is_read = TRUE] ELSE n :
                          n \in notifications }
  /\ notificationRows' = { IF n.id = id THEN [n EXCEPT !.is_read = TRUE] ELSE n :
                             n \in notificationRows }
  /\ lastCall' = [NoCall EXCEPT !.fn = "read"]
  /\ UNCHANGED << now, catalog, nextNotification, frontVars, setupVars >>

\* cleanupOldNotifications_Firestore(projectId, db): query, batch.delete per
\* document, batch.commit; returns deleteCount.
CleanupFirestore ==
  /\ LET docs == oldNotifications(notifications, now)
     IN /\ notifications' = notifications \ docs
        /\ lastCall' = [ fn |-> "cleanupOldNotifications_Firestore", outcome |-> "count",
                         returned |-> Null, count |-> Cardinality(docs) ]
  /\ UNCHANGED << now, catalog, notificationRows, nextNotification, frontVars, setupVars >>

\* cleanupOldNotifications_SQL(db): one DELETE; returns affectedRows.
CleanupSQL ==
  /\ LET rows == oldNotifications(notificationRows, now)
     IN /\ notificationRows' = notificationRows \ rows
        /\ lastCall' = [ fn |-> "cleanupOldNotifications_SQL", outcome |-> "count",
                         returned |-> Null, count |-> Cardinality(rows) ]
  /\ UNCHANGED << now, catalog, notifications, nextNotification, frontVars, setupVars >>

NextNotify ==
  \/ Tick
  \/ \E taskId \in { N_task1, N_task9 } : CommentFirestore(taskId)
  \/ \E taskId \in { N_task1, N_task9 } : CommentSQL(taskId)
  \/ \E i \in 1..MaxNotifications : ReadNotification(NotificationId(i))
  \/ CleanupFirestore
  \/ CleanupSQL

SpecNotify == InitNotify /\ [][NextNotify]_vars

\* ==================================================================== setup
\* The administrator sets the project up: owner account and data migration.
MigrationStore == [ assignees |-> assigneeDocs, menus |-> menuDocs, tasks |-> menuTaskDocs ]

\* The migrate button, confirmed.
RunMigration ==
  /\ LET run == migrateStaticData(MigrationStore)
     IN /\ assigneeDocs' = run.store.assignees
        /\ menuDocs' = run.store.menus
        /\ menuTaskDocs' = run.store.tasks
        /\ migrationReport' = run.report
  /\ UNCHANGED << authUser, userDoc, ownerResult, notifyVars, frontVars >>

\* The administrator deletes an assignee.
DeleteAssigneeDoc(name) ==
  /\ assigneeDocs[name] > 0
  /\ assigneeDocs' = [assigneeDocs EXCEPT ![name] = @ - 1]
  /\ migrationReport' = NoReport
  /\ UNCHANGED << menuDocs, menuTaskDocs, authUser, userDoc, ownerResult, notifyVars,
                  frontVars >>

\* The administrator deletes a menu, with its tasks.
DeleteMenuDoc(name) ==
  /\ menuDocs[name] > 0
  /\ menuDocs' = [menuDocs EXCEPT ![name] = @ - 1]
  /\ menuTaskDocs' = [ t \in DOMAIN menuTaskDocs |->
                         IF t[1] = name THEN 0 ELSE menuTaskDocs[t] ]
  /\ migrationReport' = NoReport
  /\ UNCHANGED << assigneeDocs, authUser, userDoc, ownerResult, notifyVars, frontVars >>

\* The administrator deletes a task.
DeleteTaskDoc(t) ==
  /\ menuTaskDocs[t] > 0
  /\ menuTaskDocs' = [menuTaskDocs EXCEPT ![t] = @ - 1]
  /\ migrationReport' = NoReport
  /\ UNCHANGED << assigneeDocs, menuDocs, authUser, userDoc, ownerResult, notifyVars,
                  frontVars >>

\* createOwnerAccount() typed into the console.
RunCreateOwnerAccount(authStep, writeStep) ==
  /\ LET done == createOwnerAccount(authUser, userDoc, authStep, writeStep)
     IN /\ authUser' = done.authUser
        /\ userDoc' = done.userDoc
        /\ ownerResult' = [ called |-> TRUE, success |-> done.success, error |-> done.error ]
  /\ UNCHANGED << assigneeDocs, menuDocs, menuTaskDocs, migrationReport, notifyVars,
                  frontVars >>

AuthSteps == { "ok", "auth/operation-not-allowed" }
WriteSteps == { "ok", "permission-denied" }

NextSetup ==
  \/ RunMigration
  \/ \E name \in StaticAssignees : DeleteAssigneeDoc(name)
  \/ \E name \in StaticMenus : DeleteMenuDoc(name)
  \/ \E t \in StaticTasks : DeleteTaskDoc(t)
  \/ \E authStep \in AuthSteps : \E writeStep \in WriteSteps :
       RunCreateOwnerAccount(authStep, writeStep)

SpecSetup == Init /\ [][NextSetup]_vars

\* =============================================================== the pager
\* An ActivityLog widget in a page: the page calls its methods, the user
\* clicks its pagination buttons.
MaxActivities == 9
MaxPerPage == 2

PagerConfigs ==
  [ found : BOOLEAN,
    activities : { Activities(n) : n \in 0..MaxActivities },
    itemsPerPage : 0..MaxPerPage ]

InitPager ==
  /\ InitDirectory /\ InitCardVars /\ InitSectionVars /\ InitUi
  /\ InitSetupVars /\ InitCommentVars
  /\ now = 0
  /\ catalog = CatalogOf(TaskRow(S_Fix, N_user1), AssigneeRow(N_user1, S_Jane))
  /\ notifications = {}
  /\ notificationRows = {}
  /\ nextNotification = 1
  /\ lastCall = NoCall
  /\ pager \in { ActivityLog(config) : config \in PagerConfigs }
  /\ lastPagerCall = NoPagerCall

pagerFrame == << directoryVars, activityLogs, cardVars, sectionVars, uiVars, backendVars,
                 commentVars >>

CallGoToPage(page) ==
  /\ pager' = goToPage(pager, page)
  /\ lastPagerCall' = [ fn |-> "goToPage", arg |-> page ]
  /\ UNCHANGED pagerFrame

CallPreviousPage ==
  /\ pager' = previousPage(pager)
  /\ lastPagerCall' = [ fn |-> "previousPage", arg |-> 0 ]
  /\ UNCHANGED pagerFrame

CallNextPage ==
  /\ pager' = nextPage(pager)
  /\ lastPagerCall' = [ fn |-> "nextPage", arg |-> 0 ]
  /\ UNCHANGED pagerFrame

CallUpdateActivities(n) ==
  /\ pager' = updateActivities(pager, Activities(n))
  /\ lastPagerCall' = [ fn |-> "updateActivities", arg |-> n ]
  /\ UNCHANGED pagerFrame

CallDestroy ==
  /\ pager' = destroy(pager)
  /\ lastPagerCall' = [ fn |-> "destroy", arg |-> 0 ]
  /\ UNCHANGED pagerFrame

\* Click on the i-th entry of the rendered page list (the active page's
\* button is disabled, an ellipsis is a span): goToPage(parseInt(data-page)).
ClickPageButton(i) ==
  /\ i \in 1..Len(pager.html.pages)
  /\ pager.html.pages[i] # Ellipsis
  /\ pager.html.pages[i] # pager.html.current
  /\ pager' = goToPage(pager, pager.html.pages[i])
  /\ lastPagerCall' = [ fn |-> "goToPage", arg |-> pager.html.pages[i] ]
  /\ UNCHANGED pagerFrame

\* Click on Previous, enabled unless the rendered page is the first.
ClickPrevious ==
  /\ pager.html.pages # <<>>
  /\ pager.html.current # 1
  /\ pager' = previousPage(pager)
  /\ lastPagerCall' = [ fn |-> "previousPage", arg |-> 0 ]
  /\ UNCHANGED pagerFrame

\* Click on Next, enabled unless the rendered page is the last.
ClickNext ==
  /\ pager.html.pages # <<>>
  /\ pager.html.current # pager.html.last
  /\ pager' = nextPage(pager)
  /\ lastPagerCall' = [ fn |-> "nextPage", arg |-> 0 ]
  /\ UNCHANGED pagerFrame

NextPager ==
  \/ \E page \in (0 - 1)..(MaxActivities + 1) : CallGoToPage(page)
  \/ CallPreviousPage
  \/ CallNextPage
  \/ \E n \in 0..MaxActivities : CallUpdateActivities(n)
  \/ CallDestroy
  \/ \E i \in 1..7 : ClickPageButton(i)
  \/ ClickPrevious
  \/ ClickNext

SpecPager == InitPager /\ [][NextPager]_vars

\* ===================================================== the comment sections
\* The overview page: taskState changes (load, snapshot, complete, reopen,
\* comment) are followed by updateUI; the user toggles comment sections.
MaxComments == 1

TaskEntries == [ completed : BOOLEAN, comments : 0..MaxComments ]

commentFrame == << directoryVars, activityLogs, cardVars, sectionVars, uiVars, backendVars,
                   pagerVars >>

\* What an updateUI call leaves behind, with the count of sections it opened.
RefreshedUI(ui) ==
  /\ commentUi' = updateUI(ui)
  /\ autoOpens' = [ id \in TaskIds |->
                      IF id \notin ui.openCommentSections
                           /\ id \in updateUI(ui).openCommentSections
                        THEN autoOpens[id] + 1 ELSE autoOpens[id] ]
  /\ lastUiOp' = "updateUI"

\* taskState of one task changes, then updateUI().
taskStateChanged(id, entry) ==
  /\ entry # commentUi.taskState[id]
  /\ RefreshedUI([commentUi EXCEPT !.taskState[id] = entry])
  /\ UNCHANGED << closedByUser, commentFrame >>

\* updateUI() with taskState as it is.
CallUpdateUI ==
  /\ RefreshedUI(commentUi)
  /\ UNCHANGED << closedByUser, commentFrame >>

\* Click on the Comment button of the completed footer: handleTaskComment.
ToggleComment(id) ==
  /\ ~commentUi.actionsHidden[id]
  /\ commentUi' = handleTaskComment(commentUi, id)
  /\ closedByUser' = IF id \notin commentUi.openCommentSections THEN closedByUser \ { id }
                     ELSE IF commentUi.taskState[id].comments > 0 THEN closedByUser \cup { id }
                     ELSE closedByUser
  /\ lastUiOp' = "toggle"
  /\ UNCHANGED << autoOpens, commentFrame >>

NextComments ==
  \/ \E id \in TaskIds : \E entry \in TaskEntries : taskStateChanged(id, entry)
  \/ CallUpdateUI
  \/ \E id \in TaskIds : ToggleComment(id)

SpecComments == Init /\ [][NextComments]_vars

\* ------------------------------------------------------------------ claims
\* C12: when the store write of a task action (complete, reopen/edit,
\* comment) rejects, the taskState in memory and the activity log equal the
\* values they had before the action started.
C12_RejectedWriteRestores ==
  [][ (syncWrite.pending /\ cardOp' = "rejected")
        => /\ taskState' = syncWrite.before
           /\ activityLogs'[Viewer] = syncWrite.logBefore ]_vars


\* C16: right after handleTaskEdit has run on a completed task,
\* isTaskCompleted(task, taskState[taskId]) is false.
C16_EditReopens ==
  (cardOp = "handler" /\ handlerCalls.kind = "edit")
    => ~isTaskCompletedInEffect(task, taskState)


\* C17: after createTaskItem and after every updateTaskCardUI the badge is
\* completed iff the footer is visible iff the input group is hidden and the
\* input disabled iff the comment section is visible, and all of them equal
\* isTaskCompleted(task, taskState).
C17_BadgeFooterSync ==
  (card.exists /\ cardOp \in { "create", "update" })
    => LET completed == isTaskCompletedInEffect(task, taskState)
       IN /\ (card.badge = "completed") = completed
          /\ (~card.footerHidden) = completed
          /\ (card.inputGroupHidden /\ card.inputDisabled) = completed
          /\ (card.inputGroupHidden \/ card.inputDisabled) = completed
          /\ (~card.commentHidden) = completed

\* A card that was pending is completed by the user and then updated.
C17_Witness ==
  /\ cardOp = "update"
  /\ handlerCalls = [ kind |-> "complete", onSuccess |-> 1, onError |-> 0 ]
  /\ isTaskCompletedInEffect(task, taskState)
  /\ card.badge = "completed" /\ ~card.footerHidden /\ card.inputGroupHidden

\* C18: after createTaskItem, after any input event and after any
\* updateTaskCardUI, the Complete button is disabled whenever the link input
\* is empty or whitespace-only, and it is disabled while the task is completed.
C18_CompleteNeedsLink ==
  (card.exists /\ cardOp \in { "create", "input", "update" })
    => /\ ~truthy(trim(card.inputValue)) => card.completeDisabled
       /\ isTaskCompletedInEffect(task, taskState) => card.completeDisabled

\* C19: a click on Complete marks the task complete only when the link input
\* holds a non-blank string that parses as a URL: then completed is true, link
\* is the trimmed input and onSuccess ran exactly once; otherwise onError ran
\* exactly once, onSuccess did not run and taskState is unchanged.
C19_CompleteOnlyWithUrl ==
  [][ (cardOp' = "handler" /\ handlerCalls'.kind = "complete")
        => LET link == trim(card.inputValue)
           IN IF truthy(link) /\ parsesAsURL(link)
                THEN /\ taskState'.completed = TRUE
                     /\ taskState'.link = link
                     /\ handlerCalls'.onSuccess = 1
                     /\ handlerCalls'.onError = 0
                ELSE /\ handlerCalls'.onError = 1
                     /\ handlerCalls'.onSuccess = 0
                     /\ taskState' = taskState ]_vars

\* Complete was clicked with ' h:x ' in the link field.
C19_Witness ==
  /\ cardOp = "handler"
  /\ handlerCalls = [ kind |-> "complete", onSuccess |-> 1, onError |-> 0 ]
  /\ card.inputValue = << " " >> \o S_link \o << " " >>
  /\ taskState.completed /\ taskState.link = S_link

\* C20: isTaskCompleted is true whenever task.status or taskState.status,
\* lower-cased and trimmed, is one of 'completed', 'hoan thanh', 'da hoan
\* thanh' (with their Vietnamese letters), 'done', 'xong'; it is false for a
\* task with no completion indicator.
C20_StatusVariations ==
  LET listed(status) ==
        truthy(status) /\ trim(toLowerCase(status)) \in
          { S_completed, S_hoanthanh, S_dahoanthanh, S_done, S_xong }
  IN /\ (listed(task.status) \/ listed(taskState.status))
          => isTaskCompletedInEffect(task, taskState)
     /\ (task = TaskObject(Null, FALSE, Null) /\ taskState = NoTaskState)
          => ~isTaskCompletedInEffect(task, taskState)


\* The browser is on another route than the dynamic section of menuId.
NavigatedAway(menuId) ==
  ~(currentRoute[Viewer].section = "dynamic-menu" /\ currentRoute[Viewer].menuId = menuId)

\* C13: when the user has navigated away while completeDynamicTask's write is
\* in flight, the write still completes, and the steps of the completion
\* handler neither navigate nor replace the displayed section with the
\* section of the menu where the action was started.
C13_CompletionKeepsSection ==
  [][ /\ (completing.stage = "write" /\ completing'.stage = "reload")
           => taskDocs'[completing.menuId].completed
      /\ (completing.stage # "none" /\ completing' # completing
            /\ NavigatedAway(completing.menuId))
           => /\ currentPath' = currentPath
              /\ currentRoute' = currentRoute
              /\ shown' = shown ]_vars

\* C14: every rejection of a store write made by a task action is caught at
\* the call site and results in a message shown to the user; no promise
\* rejection is left unhandled.
C14_RejectionsHandled ==
  [][ (completing.stage = "write" /\ completing' = NotCompleting)
        => (toast' = "error" /\ ~unhandled') ]_vars

\* C15: navigating to a dynamic menu whose tasks are not cached shows the
\* loading state, sets menuLoadingState[menuId] and calls loadMenuTasks; when
\* the fetch resolves the tasks are rendered and menuLoadingState[menuId] is
\* false, with no further user action; a cached menu is rendered at once
\* without a fetch; a rejected fetch shows an error message.
C15_FirstNavigationLoads ==
  [][ \A m \in MenuIds :
        LET navigatedTo == /\ \E i \in 1..(MaxMenus + 1) : clickNavLink(i)
                           /\ currentRoute'[Viewer].section = "dynamic-menu"
                           /\ currentRoute'[Viewer].menuId = m
        IN /\ (navigatedTo /\ dynamicTasks[Viewer][m] = {})
                => /\ shown' = Section("loading", m, {})
                   /\ menuLoadingState'[m]
                   /\ m \in fetching'
           /\ (navigatedTo /\ dynamicTasks[Viewer][m] # {})
                => /\ shown' = Section("tasks", m, dynamicTasks[Viewer][m])
                   /\ fetching' = fetching
           /\ FetchResolved(m)
                => /\ shown' = Section("tasks", m, TasksOf(m))
                   /\ ~menuLoadingState'[m]
           /\ FetchRejected(m) => shown'.kind = "error" ]_vars

\* The first menu was opened uncached, its fetch resolved, and its task is on
\* screen with the loading flag cleared.
C15_Witness ==
  /\ currentRoute[Viewer].menuId = MenuIdOf(1)
  /\ shown = Section("tasks", MenuIdOf(1), { TaskIdOf(MenuIdOf(1)) })
  /\ ~menuLoadingState[MenuIdOf(1)]
  /\ fetching = {}
  /\ completing = NotCompleting /\ ~taskDocs[MenuIdOf(1)].completed


\* What a cleanup call at time `at` has to delete from rows, and nothing else.
ReadAndOld(rows, at) == { n \in rows : n.is_read /\ at - n.created_at > RetentionDays }

\* C21: cleanupOldNotifications (Firestore and SQL) deletes exactly the
\* notifications that are read and were created more than 3 days before the
\* call: no unread one, no read one younger than 3 days, every read one older
\* than 3 days; the returned count is the number deleted.
C21_CleanupExact ==
  [][ /\ lastCall'.fn = "cleanupOldNotifications_Firestore"
           => /\ notifications' \subseteq notifications
              /\ notifications \ notifications' = ReadAndOld(notifications, now)
              /\ lastCall'.count = Cardinality(notifications \ notifications')
      /\ lastCall'.fn = "cleanupOldNotifications_SQL"
           => /\ notificationRows' \subseteq notificationRows
              /\ notificationRows \ notificationRows' = ReadAndOld(notificationRows, now)
              /\ lastCall'.count = Cardinality(notificationRows \ notificationRows') ]_vars

\* A cleanup has deleted a read notification while an unread one older than
\* 3 days is kept.
C21_Witness ==
  /\ lastCall.fn \in { "cleanupOldNotifications_Firestore", "cleanupOldNotifications_SQL" }
  /\ lastCall.count = 1
  /\ \E n \in notifications \cup notificationRows :
       ~n.is_read /\ now - n.created_at > RetentionDays

\* C22: createCommentNotification_Firestore on an existing task whose
\* assignee exists creates exactly one notification, unread, of type
\* 'comment', addressed to the task's assignee, with the message
\* 'User [Name] commented on [Task Title]', and returns its id; with no
\* assignee or a missing assignee record it creates nothing and returns null.
C22_CommentNotification ==
  [][ \A taskId \in { N_task1, N_task9 } :
        (CommentFirestore(taskId) /\ taskId \in DOMAIN catalog.tasks
           /\ catalog.tasks[taskId].exists)
          => LET row == catalog.tasks[taskId]
                 hasAssignee == /\ truthy(row.assigneeId)
                                /\ row.assigneeId \in DOMAIN catalog.assignees
                                /\ catalog.assignees[row.assigneeId].exists
                 added == notifications' \ notifications
             IN IF hasAssignee
                  THEN /\ notifications \subseteq notifications'
                       /\ Cardinality(added) = 1
                       /\ \A n \in added :
                            /\ n.is_read = FALSE
                            /\ n.type = "comment"
                            /\ n.recipientId = row.assigneeId
                            /\ n.message = << "User " >> \o S_John
                                 \o << " commented on ", "\"" >>
                                 \o (IF row.name = Null THEN S_UntitledTask ELSE row.name)
                                 \o << "\"" >>
                            /\ lastCall'.returned = n.id
                  ELSE /\ notifications' = notifications
                       /\ lastCall'.outcome = "null"
                       /\ lastCall'.returned = Null ]_vars

\* A notification for the assignee of an existing task is in the store.
C22_Witness ==
  /\ lastCall.fn = "createCommentNotification_Firestore"
  /\ lastCall.outcome = "created"
  /\ \E n \in notifications : n.id = lastCall.returned /\ n.recipientId = N_user1

\* C28: on the same store content and arguments
\* createCommentNotification_Firestore and createCommentNotification_SQL end
\* in the same outcome class: both throw when the task does not exist, both
\* return null when it has no assignee, otherwise both create one notification.
C28_SameOutcomeClass ==
  \A taskId \in { N_task1, N_task9 } :
    LET id == NotificationId(nextNotification)
        fs == createCommentNotification_Firestore(taskId, S_great, S_John, catalog, id, now)
        sql == createCommentNotification_SQL(taskId, S_great, S_John, catalog, id, now)
        taskExists == taskId \in DOMAIN catalog.tasks /\ catalog.tasks[taskId].exists
    IN /\ fs.outcome = sql.outcome
       /\ Cardinality(fs.created) = Cardinality(sql.created)
       /\ ~taskExists => (fs.outcome = "throw" /\ sql.outcome = "throw")
       /\ (taskExists /\ ~truthy(catalog.tasks[taskId].assigneeId))
            => (fs.outcome = "null" /\ sql.outcome = "null")


\* C23: migrateStaticData is idempotent: run again after a completed run it
\* creates no additional assignees, menus or tasks, so the store after two
\* runs equals the store after one.
C23_MigrationIdempotent ==
  LET once == migrateStaticData(MigrationStore)
      twice == migrateStaticData(once.store)
  IN /\ twice.store = once.store
     /\ twice.report.assignees = 0 /\ twice.report.menus = 0 /\ twice.report.tasks = 0
     /\ migrationReport.ran => migrateStaticData(MigrationStore).store = MigrationStore

\* A run that found part of the data in place and created the rest.
C23_Witness ==
  /\ migrationReport.ran
  /\ migrationReport.menus = 1 /\ migrationReport.tasks = 2 /\ migrationReport.assignees = 0
  /\ \A t \in StaticTasks : menuTaskDocs[t] = 1

\* C29: after any sequence of createOwnerAccount calls, if the admin user
\* exists in Auth then users/{uid} exists with role 'admin'; a call that
\* returns success:false leaves no Auth account without its document, and a
\* re-run whose write is accepted repairs a missing document.
C29_OwnerAccountComplete ==
  [][ /\ authUser' => userDoc' = "admin"
      /\ (ownerResult' # ownerResult /\ ownerResult'.called /\ authUser
            /\ userDoc = "none" /\ ownerResult'.error # "permission-denied")
           => userDoc' = "admin" ]_vars

\* C24: for every task-list menu m of the current Directory, with or without
\* a slug, getMenuPath(m.id) is the href of m's sidebar link and resolves to
\* the dynamic route whose menuId is m.id.
C24_RoundTrip ==
  \A c \in Clients :
    LET menus == dynamicMenus[c]
        taskLists == SelectSeq(menus, LAMBDA m : m.type = TaskList)
        links == renderSidebarDynamic(menus)
    IN \A i \in 1..Len(taskLists) :
         LET menuPath == getMenuPath(taskLists[i].id, menus)
             r == resolve(menuPath, menus)
         IN /\ links[i + 1] = menuPath
            /\ ~r.notFound
            /\ r.route.section = "dynamic-menu"
            /\ r.route.menuId = taskLists[i].id

\* C25: when the user went from uncached menu A to menu B before A's fetch
\* resolved, the late completion of A's fetch does not put A's tasks on
\* screen, and once every fetch has resolved the container shows the tasks of
\* the menu of the current route.
C25_LateFetchKeepsCurrentMenu ==
  [][ \A m \in MenuIds :
        /\ (FetchResolved(m) /\ NavigatedAway(m)
              /\ currentRoute[Viewer].section = "dynamic-menu")
             => shown'.menuId # m
        /\ (FetchResolved(m) /\ fetching' = {}
              /\ currentRoute[Viewer].section = "dynamic-menu")
             => shown' = Section("tasks", currentRoute[Viewer].menuId,
                                 TasksOf(currentRoute[Viewer].menuId)) ]_vars

\* C26: whatever sequence of goToPage(n), previousPage, nextPage,
\* updateActivities and destroy calls the widget has seen, currentPage is at
\* least 1 and at most max(1, getTotalPages()), and with a non-empty
\* activities array getCurrentPageData() returns between 1 and itemsPerPage
\* entries.
C26_PageInRange ==
  /\ pager.currentPage >= 1
  /\ pager.currentPage <= Math_max(1, getTotalPages(pager))
  /\ pager.activities # <<>> =>
       /\ Len(getCurrentPageData(pager)) >= 1
       /\ Len(getCurrentPageData(pager)) <= pager.itemsPerPage

\* goToPage was called with a page past the end while the widget stood on a
\* partly filled last page.
C26_Witness ==
  /\ lastPagerCall.fn = "goToPage"
  /\ lastPagerCall.arg > getTotalPages(pager)
  /\ pager.currentPage = getTotalPages(pager)
  /\ pager.currentPage >= 2
  /\ Len(getCurrentPageData(pager)) < pager.itemsPerPage

\* C27: with at least one page and currentPage within 1..totalPages,
\* getPageNumbers() starts with 1, ends with totalPages, contains currentPage,
\* lists page numbers strictly increasing, lists every page when there are at
\* most 7, and has an ellipsis between two listed numbers exactly when a page
\* between them is left out.
C27_PageNumbers ==
  LET totalPages == getTotalPages(pager)
      pages == getPageNumbers(pager)
      isNumber(i) == pages[i] # Ellipsis
  IN (totalPages >= 1 /\ pager.currentPage \in 1..totalPages) =>
       /\ pages[1] = 1
       /\ pages[Len(pages)] = totalPages
       /\ includes(pages, pager.currentPage)
       /\ \A i, j \in 1..Len(pages) :
            (i < j /\ isNumber(i) /\ isNumber(j)) => pages[i] < pages[j]
       /\ \A i \in 1..Len(pages) : isNumber(i) => pages[i] \in 1..totalPages
       /\ totalPages <= 7 => pages = Activities(totalPages)
       /\ \A i \in 1..Len(pages) :
            ~isNumber(i) => /\ i > 1 /\ i < Len(pages)
                            /\ isNumber(i - 1) /\ isNumber(i + 1)
                            /\ pages[i + 1] - pages[i - 1] > 1
       /\ \A i \in 1..(Len(pages) - 1) :
            (isNumber(i) /\ isNumber(i + 1)) => pages[i + 1] = pages[i] + 1

\* Nine pages, the widget on page 5: 1 ... 4 5 6 ... 9.
C27_Witness ==
  /\ getTotalPages(pager) = 9
  /\ pager.currentPage = 5
  /\ getPageNumbers(pager) = << 1, Ellipsis, 4, 5, 6, Ellipsis, 9 >>
  /\ pager.html.pages = getPageNumbers(pager)

\* C30: updateUI opens the comment section of a task by itself at most once;
\* once the user has closed a section that had comments, updateUI calls leave
\* it closed; and after every updateUI no incomplete task is in
\* openCommentSections.
C30_AutoOpenOnce ==
  [][ lastUiOp' = "updateUI" =>
        \A id \in TaskIds :
          /\ autoOpens'[id] <= 1
          /\ id \in closedByUser => id \notin commentUi'.openCommentSections
          /\ id \in commentUi'.openCommentSections => commentUi'.taskState[id].completed
    ]_vars

============================================================================
